---- MODULE Spec2Model ----
(***************************************************************************)
(* Subscription lifecycle and billing synchronisation of r_meillor_backend *)
(* (SubscriptionsService, CustomersService, PlansService lookups, the      *)
(* Stripe webhook controller and the storage constraints of the            *)
(* migrations).                                                            *)
(*                                                                         *)
(* Conventions.  Text columns hold strings, NULL is the string "null" and  *)
(* UNDEF the JavaScript value undefined.  Timestamps are integers: Stripe  *)
(* gives seconds, the store keeps ISO instants (modelled in milliseconds)  *)
(* and 0 stands for null.  Row ids, Stripe subscription ids and Stripe     *)
(* customer ids are positive integers, 0 stands for null.  A JSON object   *)
(* is a function from its keys to its values.                              *)
(***************************************************************************)
EXTENDS Integers, FiniteSets, Sequences, TLC

\* ------------------------------------------------------------------ bounds
MaxRows == 2
MaxStripeSubs == 1
MaxCustomers == 1
MaxEvents == 1
MaxRequests == 2

\* --------------------------------------------------------------- constants
NULL == "null"
UNDEF == "undefined"
NoTime == 0
NoStripeId == 0
NoCustomer == 0
BadId == 0

Users == {"u1", "u2"}
BadUser == "not-a-uuid"
\* The instants new Date() gives to a request and to the two probe runs.
Clock == {1500}
ProbeClock == {1500, 2500}

ACTIVE_STATUSES == {"active", "trialing", "past_due", "unpaid", "incomplete"}
SubscriptionStatus ==
  {"active", "trialing", "past_due", "paused", "canceled", "expired",
   "incomplete", "incomplete_expired", "unpaid"}

\* -------------------------------------------------------------- values
\* An optional value is a set: {} for null/undefined, {x} for x.  The(S) is
\* the element of a one-element set; The({e : x \in {v}}) is e with x
\* standing for the value of v.
The(opt) == CHOOSE x \in opt : TRUE

\* ---------------------------------------------------------- JSON objects
EmptyMap == [k \in {} |-> NULL]

\* { ...a, ...b }
Spread(a, b) ==
  The({[k \in DOMAIN x \cup DOMAIN y |-> IF k \in DOMAIN y THEN y[k] ELSE x[k]] :
         x \in {a}, y \in {b}})

\* JSON.stringify of a flat object drops the keys whose value is undefined.
Jsonify(m) == The({[k \in {x \in DOMAIN v : v[x] # UNDEF} |-> v[k]] : v \in {m}})

\* The metadata column as the datastore receives it: the nested custom and
\* stripe objects lose their undefined values on the wire.
JsonifyMetadata(md) == The({[k \in DOMAIN v |-> Jsonify(v[k])] : v \in {md}})

\* a ?? b  on text values
Coalesce(a, b) == IF a = NULL \/ a = UNDEF THEN b ELSE a

\* ------------------------------------------------------------------- state
VARIABLES
  subs,      \* the subscriptions table: a set of rows
  nextId,    \* the id the next inserted row gets (gen_random_uuid: never reused)
  custs,     \* the stripe_customers table: a set of [user_id, stripe_customer_id]
  gwSubs,    \* the processor's subscriptions: Stripe id -> current snapshot
  gwCusts,   \* the number of customers created at the processor (ids 1..gwCusts)
  events,    \* webhook events emitted by the processor and not yet delivered
  last,      \* the outcome of the last request handled
  probe,     \* the inputs and the intermediate result of a reconciliation probe
  syncs,     \* the reconciliations in flight: what each has read and done
  served,    \* the number of requests and webhook deliveries handled so far
  plans      \* the plans table: a set of rows

vars ==
  <<subs, nextId, custs, gwSubs, gwCusts, events, last, probe, syncs, served,
    plans>>

\* ------------------------------------------------------------ Plan Catalog
\* The plans table as the handlers find it at the start of a request.
Plans ==
  {[id |-> "plan_gold", name |-> "Gold", stripe_price_id |-> "price_gold",
    stripe_product_id |-> "prod_gold", is_active |-> TRUE]}

\* PlansService.findOne: the rows with that id (none: NotFound)
PlansFindOne(planId) == {p \in plans : p.id = planId}

\* PlansService.findByStripePrice: maybeSingle
findByStripePrice(priceId) == {p \in plans : p.stripe_price_id = priceId}

\* PlansService.findByStripeProduct: maybeSingle
findByStripeProduct(pl, productId) ==
  The({IF Cardinality(hit) = 1 THEN hit ELSE {} :
         hit \in {{p \in pl : p.stripe_product_id = productId}}})

\* PlansService.syncFromPrice: the plans table after it.  The answers of the
\* update and of the insert are not read: a write the unique price id
\* refuses changes nothing.  A new plan is named after its product here.
syncFromPrice(pl, price) ==
  IF price.product = NULL THEN pl
  ELSE The({
    IF \E p \in pl : p.stripe_price_id = price.id /\ p \notin plan THEN pl
    ELSE IF plan # {}
    THEN {IF p \in plan
          THEN [p EXCEPT !.name = Coalesce(price.nickname, p.name),
                         !.stripe_price_id = price.id,
                         !.is_active = IF ~price.active THEN FALSE ELSE @]
          ELSE p : p \in pl}
    ELSE pl \cup {[id |-> price.product,
                   name |-> Coalesce(price.nickname, "Plan"),
                   stripe_price_id |-> price.id,
                   stripe_product_id |-> price.product,
                   is_active |-> price.active]} :
      plan \in {findByStripeProduct(pl, price.product)}})

\* PlansService.syncFromProduct
syncFromProduct(pl, product) ==
  The({{IF p \in existing
        THEN [p EXCEPT !.name = Coalesce(product.name, p.name),
                       !.is_active = product.active]
        ELSE p : p \in pl} :
         existing \in {findByStripeProduct(pl, product.id)}})

\* ------------------------------------------------- pure helpers of the core
isValidUUID(u) == u \in Users

isValidRowId(id) == id # BadId

convertTimestamp(value) == IF value = 0 THEN NoTime ELSE value * 1000

mapStripeStatusDefault(subscription) == "expired"

mapStripeStatusEndedFirst(subscription) ==
  IF subscription.status = "canceled" THEN "canceled"
  ELSE IF subscription.pause_collection # NULL THEN "paused"
  ELSE IF subscription.status \in {"active", "trialing", "past_due", "incomplete",
                                   "incomplete_expired", "unpaid"}
  THEN subscription.status
  ELSE "expired"

mapStripeStatus(subscription) ==
  IF subscription.pause_collection # NULL THEN "paused"
  ELSE CASE subscription.status = "active" -> "active"
         [] subscription.status = "trialing" -> "trialing"
         [] subscription.status = "past_due" -> "past_due"
         [] subscription.status = "canceled" -> "canceled"
         [] subscription.status = "incomplete" -> "incomplete"
         [] subscription.status = "incomplete_expired" -> "incomplete_expired"
         [] subscription.status = "unpaid" -> "unpaid"
         [] OTHER -> "expired"

\* a merge that overlays the stripe sub-key instead of replacing it
mergeMetadataStripeOverlaid(existing, custom, stripeMetadata) ==
  The({Spread(withCustom,
              [k \in {"stripe"} |->
                 Spread(IF "stripe" \in DOMAIN withCustom THEN withCustom["stripe"]
                        ELSE EmptyMap,
                        IF stripeMetadata # {} THEN The(stripeMetadata)
                        ELSE EmptyMap)]) :
         withCustom \in
           {IF custom # {} /\ DOMAIN The(custom) # {}
            THEN Spread(base,
                        [k \in {"custom"} |->
                           Spread(IF "custom" \in DOMAIN base THEN base["custom"]
                                  ELSE EmptyMap,
                                  The(custom))])
            ELSE base : base \in {existing}}})

\* custom and stripeMetadata are optional arguments: {} when not passed,
\* {m} when the object m is passed.
mergeMetadata(existing, custom, stripeMetadata) ==
  The({Spread(withCustom,
              [k \in {"stripe"} |->
                 IF stripeMetadata # {} THEN The(stripeMetadata)
                 ELSE IF "stripe" \in DOMAIN withCustom THEN withCustom["stripe"]
                 ELSE EmptyMap]) :
         withCustom \in
           {IF custom # {} /\ DOMAIN The(custom) # {}
            THEN Spread(base,
                        [k \in {"custom"} |->
                           Spread(IF "custom" \in DOMAIN base THEN base["custom"]
                                  ELSE EmptyMap,
                                  The(custom))])
            ELSE base : base \in {existing}}})

\* latest_invoice is absent (kind "none"), a bare invoice id (kind "id",
\* hosted and pdf are then what invoices.retrieve answers) or the expanded
\* invoice (kind "object").  retrieveOk is whether invoices.retrieve succeeds.
extractInvoiceUrl(subscription, retrieveOk) ==
  LET latestInvoice == subscription.latest_invoice
  IN IF latestInvoice.kind = "none" THEN NULL
     ELSE IF latestInvoice.kind = "id" /\ ~retrieveOk THEN NULL
     ELSE Coalesce(latestInvoice.hosted, Coalesce(latestInvoice.pdf, NULL))

\* ------------------------------------------- Subscription Record Store (DB)
\* 006_alter_subscriptions_add_stripe_fields.sql: stripe_subscription_id UNIQUE
\* (nulls are not compared)
UniqueOkUndeclared(rows, selfId, stripeId) == TRUE

UniqueOk(rows, selfId, stripeId) ==
  stripeId = NoStripeId
  \/ \A r \in rows : r.id = selfId \/ r.stripe_subscription_id # stripeId

\* 003_create_subscriptions_table.sql: plan TEXT NOT NULL
NotNullOk(payload) == payload.plan # NULL

\* 006_alter_subscriptions_add_stripe_fields.sql: plan_id REFERENCES plans(id)
ForeignKeyOk(payload) ==
  "plan_id" \in DOMAIN payload =>
    (payload.plan_id = NULL \/ \E p \in plans : p.id = payload.plan_id)

\* 003_create_subscriptions_table.sql: user_id UUID NOT NULL, a key of users
UserOk(payload) == isValidUUID(payload.user_id)

\* insert([payload]): the row gets a fresh id, cancel_reason has no value in
\* any insert payload of the core and defaults to null.
DbInsert(rows, newId, payload) ==
  The({IF /\ NotNullOk(p)
          /\ UserOk(p)
          /\ ForeignKeyOk(p)
          /\ UniqueOk(rows, BadId, p.stripe_subscription_id)
       THEN [ok |-> TRUE,
             rows |-> rows \cup
               {[c \in DOMAIN p \cup {"id", "cancel_reason"} |->
                   IF c = "id" THEN newId
                   ELSE IF c = "metadata" THEN JsonifyMetadata(p.metadata)
                   ELSE IF c \in DOMAIN p THEN p[c]
                   ELSE NULL]}]
       ELSE [ok |-> FALSE, rows |-> rows] : p \in {payload}})

\* update(updates).eq('id', id): no matching row is not an error.
DbUpdate(rows, id, updates) ==
  The({IF \E r \in rows :
            /\ r.id = id
            /\ \/ /\ "stripe_subscription_id" \in DOMAIN u
                  /\ ~UniqueOk(rows, id, u.stripe_subscription_id)
               \/ ~ForeignKeyOk(u)
               \/ ("plan" \in DOMAIN u /\ ~NotNullOk(u))
       THEN [ok |-> FALSE, rows |-> rows]
       ELSE [ok |-> TRUE,
             rows |-> {IF r.id # id THEN r
                       ELSE [c \in DOMAIN r |->
                               IF c = "metadata" /\ c \in DOMAIN u
                               THEN JsonifyMetadata(u[c])
                               ELSE IF c \in DOMAIN u THEN u[c]
                               ELSE r[c]] : r \in rows}] : u \in {updates}})

DbDelete(rows, id) == {r \in rows : r.id # id}

\* select('*').eq('id', id).single()
getById(rows, id) == {r \in rows : r.id = id}

\* a lookup that takes the only row of the table for the row asked for
findTheOnlyRow(rows, stripeId) == IF Cardinality(rows) = 1 THEN rows ELSE {}

\* select('*').eq('stripe_subscription_id', stripeId).maybeSingle()
findByStripeSubscriptionId(rows, stripeId) ==
  LET hit == {r \in rows : r.stripe_subscription_id = stripeId}
  IN IF Cardinality(hit) = 1 THEN hit ELSE {}

\* ----------------------------------------------------------- reconciliation
\* The canceled_at special case of syncFromStripe.
CanceledAtNow(subscription, t) ==
  IF convertTimestamp(subscription.canceled_at) = NoTime
     /\ subscription.status = "canceled" /\ subscription.ended_at # 0
  THEN t
  ELSE convertTimestamp(subscription.canceled_at)

\* a reconciliation without the special case
CanceledAtAsGiven(subscription, t) == convertTimestamp(subscription.canceled_at)

CanceledAt(subscription, t) ==
  IF convertTimestamp(subscription.canceled_at) = NoTime
     /\ subscription.status = "canceled" /\ subscription.ended_at # 0
  THEN convertTimestamp(subscription.ended_at)
  ELSE convertTimestamp(subscription.canceled_at)

\* The owner of the snapshot: the existing row's user, else the Customer
\* Mapping of the snapshot's customer, else the metadata hint; NULL if none.
SyncUserIdDefault(cu, existing, subscription) == "u1"

SyncUserIdHintFirst(cu, existing, subscription) ==
  IF existing # {} THEN The(existing).user_id
  ELSE IF "user_id" \in DOMAIN subscription.metadata
  THEN subscription.metadata["user_id"]
  ELSE IF \E c \in cu : c.stripe_customer_id = subscription.customer
  THEN (CHOOSE c \in cu : c.stripe_customer_id = subscription.customer).user_id
  ELSE NULL

SyncUserIdMappingFirst(cu, existing, subscription) ==
  IF \E c \in cu : c.stripe_customer_id = subscription.customer
  THEN (CHOOSE c \in cu : c.stripe_customer_id = subscription.customer).user_id
  ELSE IF existing # {} THEN The(existing).user_id
  ELSE NULL

SyncUserIdNoHint(cu, existing, subscription) ==
  IF existing # {} THEN The(existing).user_id
  ELSE IF \E c \in cu : c.stripe_customer_id = subscription.customer
  THEN (CHOOSE c \in cu : c.stripe_customer_id = subscription.customer).user_id
  ELSE NULL

SyncUserId(cu, existing, subscription) ==
  LET own == IF existing # {} THEN The(existing).user_id ELSE NULL
      mapping == {c \in cu : c.stripe_customer_id = subscription.customer}
      mapped == IF own # NULL THEN own
                ELSE IF Cardinality(mapping) = 1 THEN The(mapping).user_id
                ELSE NULL
      hint == IF "user_id" \in DOMAIN subscription.metadata
              THEN subscription.metadata["user_id"] ELSE UNDEF
  IN IF mapped = NULL /\ hint # UNDEF /\ hint # NULL THEN hint ELSE mapped

SyncPayload(existing, userId, subscription, customMetadata, t, retrieveOk) ==
  The({[user_id |-> userId,
        plan |-> IF plan # {} THEN The(plan).name
                 ELSE IF existing # {} /\ The(existing).plan # NULL
                      THEN The(existing).plan
                 ELSE Coalesce(subscription.price.nickname, NULL),
        plan_id |-> IF plan # {} THEN The(plan).id
                    ELSE IF existing # {} THEN The(existing).plan_id
                    ELSE NULL,
        stripe_subscription_id |-> subscription.id,
        stripe_customer_id |-> subscription.customer,
        status |-> mapStripeStatus(subscription),
        started_at |-> convertTimestamp(subscription.start_date),
        current_period_start |-> convertTimestamp(subscription.current_period_start),
        current_period_end |-> convertTimestamp(subscription.current_period_end),
        ended_at |-> convertTimestamp(subscription.ended_at),
        cancel_at |-> convertTimestamp(subscription.cancel_at),
        canceled_at |-> CanceledAt(subscription, t),
        stripe_invoice_url |->
          IF invoiceUrl # NULL THEN invoiceUrl
          ELSE IF existing # {} THEN The(existing).stripe_invoice_url
          ELSE NULL,
        pause_reason |-> subscription.pause_collection,
        metadata |-> mergeMetadata(
                       IF existing # {} THEN The(existing).metadata ELSE EmptyMap,
                       {customMetadata}, {subscription.metadata}),
        last_event_at |-> t] :
         plan \in {IF subscription.price.id # NULL
                   THEN findByStripePrice(subscription.price.id) ELSE {}},
         invoiceUrl \in {extractInvoiceUrl(subscription, retrieveOk)}})

\* Everything of syncFromStripe after the lookup of the existing row.
\* Result: the rows, whether a row was inserted, and the error raised.
syncWrite(rows, newId, cu, existing, subscription, customMetadata, t, retrieveOk) ==
  IF subscription.customer = NoCustomer
     \/ SyncUserId(cu, existing, subscription) = NULL
  THEN [rows |-> rows, inserted |-> FALSE, wrote |-> FALSE, err |-> "none"]
  ELSE The({[rows |-> w.rows, inserted |-> existing = {} /\ w.ok, wrote |-> w.ok,
             err |-> IF w.ok THEN "none" ELSE "db"] :
              w \in {IF existing # {}
                     THEN DbUpdate(rows, The(existing).id, payload)
                     ELSE DbInsert(rows, newId, payload) :
                       payload \in {SyncPayload(
                                      existing,
                                      SyncUserId(cu, existing, subscription),
                                      subscription, customMetadata, t,
                                      retrieveOk)}}})

syncFromStripe(rows, newId, cu, subscription, customMetadata, t, retrieveOk) ==
  The({syncWrite(rows, newId, cu, existing, subscription, customMetadata, t,
                 retrieveOk) :
         existing \in {findByStripeSubscriptionId(rows, subscription.id)}})

\* ------------------------------------------------ snapshots of the processor
NoPrice == [id |-> NULL, nickname |-> NULL]
NoInvoice == [kind |-> "none", hosted |-> NULL, pdf |-> NULL]

\* A Stripe.Subscription as the core reads it.  start_date and the current
\* period are fixed instants of the processor's clock.
Snapshot(id, customer, status, pause, price, metadata, invoice, ended, canceled) ==
  [id |-> id, customer |-> customer, status |-> status,
   pause_collection |-> pause, price |-> price, metadata |-> metadata,
   latest_invoice |-> invoice, start_date |-> 1, current_period_start |-> 1,
   current_period_end |-> 2, ended_at |-> ended, cancel_at |-> 0,
   canceled_at |-> canceled]

\* A row of the store.
Row(id, user, plan, planId, stripeId, customer, status, metadata) ==
  [id |-> id, user_id |-> user, plan |-> plan, plan_id |-> planId,
   stripe_subscription_id |-> stripeId, stripe_customer_id |-> customer,
   status |-> status, started_at |-> 1000, current_period_start |-> NoTime,
   current_period_end |-> NoTime, ended_at |-> NoTime, cancel_at |-> NoTime,
   canceled_at |-> NoTime, stripe_invoice_url |-> NULL, pause_reason |-> NULL,
   cancel_reason |-> NULL, metadata |-> metadata, last_event_at |-> 1000]

Idle == [phase |-> "idle"]
NoRequest == [op |-> "none"]
NoSyncs == <<>>

\* -------------------------------------------------- reconciliation probe
\* syncFromStripe applied twice to the same snapshot and extra metadata,
\* from a store drawn from a bounded set (the two runs may read different
\* clock values; invoices.retrieve answers the same both times).
ProbePrices ==
  {NoPrice, [id |-> "price_gold", nickname |-> NULL],
   [id |-> "price_raw", nickname |-> "Raw"], [id |-> "price_raw", nickname |-> NULL]}

ProbeInvoices ==
  {NoInvoice, [kind |-> "id", hosted |-> "url_hosted", pdf |-> NULL],
   [kind |-> "object", hosted |-> NULL, pdf |-> "url_pdf"]}

ProbeStripeMetadata ==
  {EmptyMap, [user_id |-> "u2"], [user_id |-> "u1", k |-> "s1"]}

ProbeCustom == {EmptyMap, [k |-> "v1"], [pause_reason |-> UNDEF]}

ProbeSnapshots ==
  {Snapshot(1, cus, st, pc, pr, md, inv, en, ca) :
     cus \in {NoCustomer, 1}, st \in {"active", "canceled", "paused"},
     pc \in {NULL, "mark_uncollectible"}, pr \in ProbePrices,
     md \in ProbeStripeMetadata, inv \in ProbeInvoices,
     en \in {0, 3}, ca \in {0, 4}}
  \cup {Snapshot(1, 1, st, pc, [id |-> "price_gold", nickname |-> NULL],
                 [user_id |-> "u2"], NoInvoice, 0, 0) :
          st \in {"active", "trialing", "past_due", "canceled", "incomplete",
                  "incomplete_expired", "unpaid", "paused", "future_status"},
          pc \in {NULL, "keep_as_draft"}}

ProbeStores ==
  {{},
   {Row(1, "u1", "Silver", NULL, NoStripeId, NoCustomer, "active", EmptyMap)},
   {[Row(1, "u1", "Silver", NULL, 1, 1, "trialing",
         [custom |-> [k |-> "v0", j |-> "w0", pause_reason |-> "r0"],
          stripe |-> [old |-> "x"], legacy |-> [a |-> "b"]])
       EXCEPT !.stripe_invoice_url = "url_old", !.pause_reason = "r0",
              !.cancel_reason = "c0"]},
   {Row(1, "u2", "Gold", "plan_gold", 2, 1, "active",
        [stripe |-> EmptyMap])}}

ProbeInit ==
  /\ subs \in ProbeStores
  /\ nextId = 2
  /\ custs \in {{}, {[user_id |-> "u1", stripe_customer_id |-> 1,
                      email |-> "mail"]}}
  /\ gwSubs = EmptyMap
  /\ gwCusts = 1
  /\ events = {}
  /\ last = NoRequest
  /\ syncs = NoSyncs
  /\ served = 0
  /\ plans = Plans
  /\ \E s \in ProbeSnapshots, m \in ProbeCustom, ok \in BOOLEAN :
       probe = [phase |-> "0", snap |-> s, custom |-> m, retrieveOk |-> ok,
                start |-> subs, once |-> subs, err |-> "none"]

ProbeSync ==
  /\ probe.phase \in {"0", "1"}
  /\ \E t \in ProbeClock :
       \E r \in {syncFromStripe(subs, nextId, custs, probe.snap, probe.custom,
                                t, probe.retrieveOk)} :
          /\ subs' = r.rows
          /\ nextId' = IF r.inserted THEN nextId + 1 ELSE nextId
          /\ probe' = IF probe.phase = "0"
                      THEN [probe EXCEPT !.phase = "1", !.once = r.rows,
                                         !.err = r.err]
                      ELSE [probe EXCEPT !.phase = "2", !.err = r.err]
  /\ UNCHANGED <<custs, gwSubs, gwCusts, events, last, syncs, served, plans>>

ProbeNext == ProbeSync

SpecSync == ProbeInit /\ [][ProbeNext]_vars

\* The rows without the last-synchronisation timestamp.
WithoutLastEvent(rows) ==
  {[c \in DOMAIN r \ {"last_event_at"} |-> r[c]] : r \in rows}

GwPrices ==
  {[id |-> "price_gold", nickname |-> NULL], [id |-> "price_raw", nickname |-> "Raw"],
   [id |-> "price_bare", nickname |-> NULL]}

GwPrice(priceId) ==
  IF \E p \in GwPrices : p.id = priceId
  THEN CHOOSE p \in GwPrices : p.id = priceId
  ELSE NoPrice

GwInvoice == [kind |-> "id", hosted |-> "url_hosted", pdf |-> "url_pdf"]

\* The answer of a call that asks for expand: ['latest_invoice', ...]
Expanded(snapshot) ==
  IF snapshot.latest_invoice.kind = "none" THEN snapshot
  ELSE [snapshot EXCEPT !.latest_invoice.kind = "object"]

\* stripe.subscriptions.create({customer, items, trial_period_days, metadata})
GwSubscriptionsCreate(gw, customer, priceId, trialDays, metadata, paid) ==
  Snapshot(Cardinality(DOMAIN gw) + 1, customer,
           IF trialDays > 0 THEN "trialing"
           ELSE IF paid THEN "active" ELSE "incomplete",
           NULL, GwPrice(priceId), Jsonify(metadata), GwInvoice, 0, 0)

\* stripe.subscriptions.update(id, {pause_collection}) pausing collection;
\* metadata keys given are merged into the subscription's metadata.
GwPauseCollection(snapshot, metadata) ==
  [snapshot EXCEPT !.pause_collection = "mark_uncollectible",
                   !.metadata = Spread(@, Jsonify(metadata))]

\* a processor that keeps collection paused
GwResumeCollectionKept(snapshot) == snapshot

\* stripe.subscriptions.update(id, {pause_collection: null})
GwResumeCollection(snapshot) == [snapshot EXCEPT !.pause_collection = NULL]

\* stripe.subscriptions.update(id, {items?, metadata?})
GwSubscriptionsUpdate(snapshot, priceId, metadata) ==
  [snapshot EXCEPT !.price = IF priceId # NULL THEN GwPrice(priceId) ELSE @,
                   !.metadata = IF metadata # {} THEN Jsonify(The(metadata)) ELSE @]

\* stripe.subscriptions.cancel(id, {invoice_now: false, prorate: false})
GwSubscriptionsCancel(snapshot) ==
  [snapshot EXCEPT !.status = "canceled", !.canceled_at = 3, !.ended_at = 3]

\* ------------------------------------------------------- request contexts
\* A handler runs on a context: the tables and the processor as it sees and
\* leaves them, the gateway calls it made, the columns of its direct local
\* write and the error it raised ("none": it returned normally).
Ctx(rows, nid, cu, gw, gc) ==
  [rows |-> rows, nextId |-> nid, custs |-> cu, gw |-> gw, gwCusts |-> gc,
   calls |-> {}, cols |-> {}, err |-> "none", data |-> {}, plans |-> plans,
   ran |-> {}]

Fail(c, e) == [c EXCEPT !.err = e]

Called(c, call) == [c EXCEPT !.calls = @ \cup {call}]

\* The error kinds of the specification for the errors the handlers raise.
ErrorKind(e) ==
  CASE e \in {"invalid_user", "invalid_id", "plan_required"} -> "Validation"
    [] e = "forbidden" -> "Authorization"
    [] e \in {"not_found", "plan_not_found"} -> "NotFound"
    [] e \in {"active_exists", "not_active", "not_paused", "already_canceled",
              "not_deletable"} -> "BusinessRule"
    [] e \in {"gateway", "db"} -> "Integration"
    [] e = "not_persisted" -> "Internal"
    [] e = "bad_signature" -> "Validation"
    [] OTHER -> "none"

\* a handler that leaves reconciliation out
SyncInNever(c, subscription, customMetadata, t, retrieveOk) == c

\* syncFromStripe run inside a handler
SyncIn(c, subscription, customMetadata, t, retrieveOk) ==
  The({[(IF s.latest_invoice.kind = "id" /\ s.customer # NoCustomer
            /\ SyncUserId(c0.custs, findByStripeSubscriptionId(c0.rows, s.id),
                          s) # NULL
         THEN Called(c0, "invoices.retrieve") ELSE c0)
          EXCEPT !.rows = r.rows,
                 !.nextId = IF r.inserted THEN @ + 1 ELSE @,
                 !.err = r.err] :
         r \in {syncFromStripe(c0.rows, c0.nextId, c0.custs, s, m, t, retrieveOk) :
                  c0 \in {c}, s \in {subscription}, m \in {customMetadata}},
         c0 \in {c}, s \in {subscription}})

\* ------------------------------------------------ Customer Mapping Manager
Email(u) == "mail"

findByUserId(cu, userId) ==
  LET hit == {m \in cu : m.user_id = userId}
  IN IF Cardinality(hit) = 1 THEN hit ELSE {}

\* ensureCustomer: the context after it and, in .customer, the Stripe
\* customer id it returns.
ensureCustomer(c, userId, email, fail) ==
  The({IF existing # {}
       THEN IF email # UNDEF /\ The(existing).email # email
            THEN IF fail = "customers.update"
                 THEN [ctx |-> Fail(Called(c, "customers.update"), "gateway"),
                       customer |-> NoCustomer]
                 ELSE [ctx |-> [Called(c, "customers.update") EXCEPT !.custs =
                                 {IF m = The(existing)
                                  THEN [m EXCEPT !.email = email] ELSE m : m \in @}],
                       customer |-> The(existing).stripe_customer_id]
            ELSE [ctx |-> c, customer |-> The(existing).stripe_customer_id]
       ELSE IF fail = "customers.create"
       THEN [ctx |-> Fail(Called(c, "customers.create"), "gateway"),
             customer |-> NoCustomer]
       ELSE IF \E m \in c.custs :
                 m.user_id = userId \/ m.stripe_customer_id = c.gwCusts + 1
       THEN [ctx |-> Fail([Called(c, "customers.create") EXCEPT
                             !.gwCusts = c.gwCusts + 1], "db"),
             customer |-> NoCustomer]
       ELSE [ctx |-> [Called(c, "customers.create") EXCEPT
                        !.gwCusts = c.gwCusts + 1,
                        !.custs = @ \cup {[user_id |-> userId,
                                           stripe_customer_id |-> c.gwCusts + 1,
                                           email |-> Coalesce(email, NULL)]}],
             customer |-> c.gwCusts + 1] :
         existing \in {findByUserId(c.custs, userId)}})

\* CustomersService.syncFromStripe: the mappings after a customer event.
\* The answers of its update and insert are not read: an insert the unique
\* columns or the uuid type of user_id refuse changes nothing.
\* a store without the unique columns
customersSyncFromStripeBlind(cu, customer) ==
  IF \E m \in cu : m.stripe_customer_id = customer.id
  THEN {IF m.stripe_customer_id = customer.id
        THEN [m EXCEPT !.email = Coalesce(customer.email, NULL)] ELSE m : m \in cu}
  ELSE IF "user_id" \notin DOMAIN customer.metadata THEN cu
  ELSE cu \cup {[user_id |-> customer.metadata["user_id"],
                 stripe_customer_id |-> customer.id,
                 email |-> Coalesce(customer.email, NULL)]}

customersSyncFromStripe(cu, customer) ==
  The({
    IF Cardinality(data) = 1
    THEN {IF m \in data THEN [m EXCEPT !.email = Coalesce(customer.email, NULL)]
          ELSE m : m \in cu}
    ELSE IF "user_id" \notin DOMAIN customer.metadata THEN cu
    ELSE IF \/ ~isValidUUID(customer.metadata["user_id"])
            \/ data # {}
            \/ \E m \in cu : m.user_id = customer.metadata["user_id"]
    THEN cu
    ELSE cu \cup {[user_id |-> customer.metadata["user_id"],
                   stripe_customer_id |-> customer.id,
                   email |-> Coalesce(customer.email, NULL)]} :
      data \in {{m \in cu : m.stripe_customer_id = customer.id}}})

\* CustomersService.deleteByStripeId(id, false)
deleteByStripeId(cu, stripeCustomerId) ==
  {m \in cu : m.stripe_customer_id # stripeCustomerId}

\* --------------------------------------------- Subscription Lifecycle Manager
ensureAccessAny(subscription, requesterId, isAdmin) == TRUE

ensureAccess(subscription, requesterId, isAdmin) ==
  isAdmin \/ subscription.user_id = requesterId

ensureUserCanStartNewActiveOnly(rows, userId) ==
  ~\E r \in rows : r.user_id = userId /\ r.status \in ACTIVE_STATUSES

\* ensureUserCanStartNew passes
ensureUserCanStartNew(rows, userId) ==
  ~\E r \in rows : r.user_id = userId /\ r.status \in ACTIVE_STATUSES \cup {"paused"}

\* resolvePrice: err is "plan_not_found" when plansService.findOne throws
\* a resolution that takes the free-text plan label for a price id
resolvePriceFromLabel(dto) ==
  IF dto.plan_id # UNDEF /\ PlansFindOne(dto.plan_id) = {}
  THEN [err |-> "plan_not_found", priceId |-> NULL, planId |-> NULL,
        planName |-> NULL]
  ELSE [err |-> "none",
        priceId |-> IF dto.plan_id # UNDEF THEN "price_gold"
                    ELSE IF dto.stripe_price_id # UNDEF THEN dto.stripe_price_id
                    ELSE "price_raw",
        planId |-> NULL, planName |-> Coalesce(dto.plan, NULL)]

resolvePrice(dto) ==
  IF dto.plan_id # UNDEF
  THEN IF PlansFindOne(dto.plan_id) = {}
       THEN [err |-> "plan_not_found", priceId |-> NULL, planId |-> NULL,
             planName |-> NULL]
       ELSE The({[err |-> "none", priceId |-> plan.stripe_price_id,
                  planId |-> plan.id, planName |-> plan.name] :
                   plan \in PlansFindOne(dto.plan_id)})
  ELSE IF dto.stripe_price_id # UNDEF
  THEN The({[err |-> "none", priceId |-> dto.stripe_price_id,
             planId |-> IF plan # {} THEN The(plan).id ELSE NULL,
             planName |-> IF plan # {} THEN The(plan).name
                          ELSE Coalesce(dto.plan, NULL)] :
              plan \in {findByStripePrice(dto.stripe_price_id)}})
  ELSE [err |-> "none", priceId |-> NULL, planId |-> NULL,
        planName |-> Coalesce(dto.plan, NULL)]

\* The metadata create sends to the processor.
CreateMetadata(targetUserId, price, dto) ==
  Spread([user_id |-> targetUserId,
          plan_id |-> Coalesce(price.planId, UNDEF),
          plan_name |-> Coalesce(price.planName, Coalesce(dto.plan, UNDEF))],
         IF dto.metadata # {} THEN The(dto.metadata) ELSE EmptyMap)

MayActForAnyone(isAdmin, targetUserId, requester) == TRUE

\* create: a requester without privilege may name only themselves
MayActFor(isAdmin, targetUserId, requester) ==
  isAdmin \/ targetUserId = requester

create(c, requester, dto, isAdmin, fail, paid, t, retrieveOk) ==
  The({IF ~isValidUUID(targetUserId) THEN Fail(c, "invalid_user")
       ELSE IF ~MayActFor(isAdmin, targetUserId, requester)
       THEN Fail(c, "forbidden")
       ELSE IF ~ensureUserCanStartNew(c.rows, targetUserId)
       THEN Fail(c, "active_exists")
       ELSE The({
         IF price.err # "none" THEN Fail(c, price.err)
         ELSE IF price.priceId = NULL THEN Fail(c, "plan_required")
         ELSE The({
           IF ens.ctx.err # "none" THEN ens.ctx
           ELSE IF fail = "subscriptions.create"
           THEN Fail(Called(ens.ctx, "subscriptions.create"), "gateway")
           ELSE The({
             The({IF c3.err # "none" THEN c3
                  ELSE IF findByStripeSubscriptionId(c3.rows, subscription.id) = {}
                  THEN Fail(c3, "not_persisted")
                  ELSE [c3 EXCEPT !.data = findByStripeSubscriptionId(
                                             c3.rows, subscription.id)] :
                    c3 \in {SyncIn([Called(ens.ctx, "subscriptions.create") EXCEPT
                                      !.gw = Spread(@, [i \in {subscription.id} |->
                                               [subscription EXCEPT
                                                  !.latest_invoice.kind = "id"]])],
                                   subscription,
                                   IF dto.metadata # {} THEN The(dto.metadata)
                                   ELSE EmptyMap,
                                   t, retrieveOk)}}) :
               subscription \in
                 {Expanded(GwSubscriptionsCreate(
                    ens.ctx.gw, ens.customer, price.priceId,
                    dto.trial_period_days,
                    CreateMetadata(targetUserId, price, dto), paid))}}) :
             ens \in {ensureCustomer(c, targetUserId,
                                     IF targetUserId = requester
                                     THEN Email(requester)
                                     ELSE Email(targetUserId),
                                     fail)}}) :
           price \in {resolvePrice(dto)}}) :
         targetUserId \in {IF dto.user_id # UNDEF THEN dto.user_id ELSE requester}})

\* getById followed by ensureAccess: the error raised, "none" if the row is
\* found and the requester may act on it.
Fetch(rows, id, requesterId, isAdmin) ==
  IF ~isValidRowId(id) THEN "invalid_id"
  ELSE IF getById(rows, id) = {} THEN "not_found"
  ELSE IF ~ensureAccess(The(getById(rows, id)), requesterId, isAdmin)
  THEN "forbidden"
  ELSE "none"

IsExternalAlways(subscription) == TRUE

IsExternal(subscription) == subscription.stripe_subscription_id # NoStripeId

\* The direct local write of a handler: update(updates).eq('id', id)
LocalWrite(c, id, updates, fail, e) ==
  The({IF fail = "db.write" \/ ~DbUpdate(c.rows, id, u).ok
       THEN Fail([c EXCEPT !.cols = DOMAIN u], e)
       ELSE [c EXCEPT !.rows = DbUpdate(@, id, u).rows, !.cols = DOMAIN u] :
         u \in {updates}})

\* The processor's subscription after a call changed it.
GwPut(c, snapshot) ==
  [c EXCEPT !.gw = Spread(@, [i \in {snapshot.id} |-> snapshot])]

\* return this.getById(id): the answer of a handler that did not throw
Returning(c, id) ==
  The({IF r.err = "none" THEN [r EXCEPT !.data = getById(r.rows, id)] ELSE r :
         r \in {c}})

findOne(c, id, requesterId, isAdmin) ==
  IF Fetch(c.rows, id, requesterId, isAdmin) # "none"
  THEN Fail(c, Fetch(c.rows, id, requesterId, isAdmin))
  ELSE [c EXCEPT !.data = getById(c.rows, id)]

PauseGuardAny(status) == TRUE

PauseGuard(status) == status \in ACTIVE_STATUSES

PauseUpdates(subscription, dto, nowIso) ==
  IF IsExternal(subscription)
  THEN [pause_reason |-> Coalesce(dto.reason, NULL), last_event_at |-> nowIso]
  ELSE [pause_reason |-> Coalesce(dto.reason, NULL), last_event_at |-> nowIso,
        status |-> "paused", ended_at |-> nowIso]

pause(c, id, requesterId, dto, isAdmin, fail, t, retrieveOk) ==
  Returning(
  IF Fetch(c.rows, id, requesterId, isAdmin) # "none"
  THEN Fail(c, Fetch(c.rows, id, requesterId, isAdmin))
  ELSE The({
    IF ~PauseGuard(subscription.status) THEN Fail(c, "not_active")
    ELSE IF ~IsExternal(subscription)
    THEN LocalWrite(c, id, PauseUpdates(subscription, dto, t), fail, "db")
    ELSE IF fail = "subscriptions.update"
            \/ subscription.stripe_subscription_id \notin DOMAIN c.gw
    THEN Fail(Called(c, "subscriptions.update"), "gateway")
    ELSE The({
      IF c2.err # "none" THEN c2
      ELSE LocalWrite(c2, id, PauseUpdates(subscription, dto, t), fail, "db") :
        c2 \in {SyncIn(GwPut(Called(c, "subscriptions.update"), updatedStripe),
                       updatedStripe, [pause_reason |-> dto.reason], t,
                       retrieveOk) :
                  updatedStripe \in
                    {GwPauseCollection(
                       c.gw[subscription.stripe_subscription_id],
                       IF dto.reason # UNDEF /\ dto.reason # ""
                       THEN [pause_reason |-> dto.reason] ELSE EmptyMap)}}}) :
      subscription \in getById(c.rows, id)}),
    id)

ResumeGuardAny(status) == TRUE

ResumeGuard(status) == status = "paused"

ResumeUpdatesRestart(subscription, dto, nowIso) ==
  IF IsExternal(subscription)
  THEN [pause_reason |-> NULL, last_event_at |-> nowIso]
  ELSE [pause_reason |-> NULL, last_event_at |-> nowIso, status |-> "active",
        ended_at |-> NoTime, started_at |-> nowIso]

ResumeUpdates(subscription, dto, nowIso) ==
  LET base == [pause_reason |-> NULL, last_event_at |-> nowIso]
      local == IF IsExternal(subscription) THEN base
               ELSE Spread(base, [status |-> "active", ended_at |-> NoTime])
      started == IF ~IsExternal(subscription) /\ subscription.started_at = NoTime
                 THEN Spread(local, [started_at |-> nowIso]) ELSE local
      plan == IF dto.plan # UNDEF /\ dto.plan # "" /\ ~IsExternal(subscription)
              THEN Spread(started, [plan |-> dto.plan]) ELSE started
  IN IF dto.stripe_invoice_url # UNDEF /\ dto.stripe_invoice_url # ""
     THEN Spread(plan, [stripe_invoice_url |-> dto.stripe_invoice_url])
     ELSE plan

resume(c, id, requesterId, dto, isAdmin, fail, t, retrieveOk) ==
  Returning(
  IF Fetch(c.rows, id, requesterId, isAdmin) # "none"
  THEN Fail(c, Fetch(c.rows, id, requesterId, isAdmin))
  ELSE The({
    IF ~ResumeGuard(subscription.status) THEN Fail(c, "not_paused")
    ELSE IF ~IsExternal(subscription)
    THEN LocalWrite(c, id, ResumeUpdates(subscription, dto, t), fail, "db")
    ELSE IF fail = "subscriptions.update"
            \/ subscription.stripe_subscription_id \notin DOMAIN c.gw
    THEN Fail(Called(c, "subscriptions.update"), "gateway")
    ELSE The({
      IF c2.err # "none" THEN c2
      ELSE LocalWrite(c2, id, ResumeUpdates(subscription, dto, t), fail, "db") :
        c2 \in {SyncIn(GwPut(Called(c, "subscriptions.update"), updatedStripe),
                       updatedStripe, EmptyMap, t, retrieveOk) :
                  updatedStripe \in
                    {GwResumeCollection(
                       c.gw[subscription.stripe_subscription_id])}}}) :
      subscription \in getById(c.rows, id)}),
    id)

CancelGuardAny(status) == TRUE

CancelGuard(status) == status # "canceled"

CancelUpdates(subscription, dto, nowIso) ==
  LET base == [cancel_reason |-> Coalesce(dto.reason, NULL),
               stripe_invoice_url |-> Coalesce(dto.stripe_invoice_url,
                                               subscription.stripe_invoice_url),
               last_event_at |-> nowIso]
  IN IF IsExternal(subscription) THEN base
     ELSE Spread(base, [status |-> "canceled", ended_at |-> nowIso])

\* a cancel that writes the row before it calls the processor
cancelWriteFirst(c, id, requesterId, dto, isAdmin, fail, t, retrieveOk) ==
  IF Fetch(c.rows, id, requesterId, isAdmin) # "none"
  THEN Fail(c, Fetch(c.rows, id, requesterId, isAdmin))
  ELSE The({
    IF fail = "subscriptions.cancel" /\ IsExternal(subscription)
    THEN Fail(Called(LocalWrite(c, id, CancelUpdates(subscription, dto, t),
                                "none", "db"),
                     "subscriptions.cancel"), "gateway")
    ELSE LocalWrite(c, id, CancelUpdates(subscription, dto, t), fail, "db") :
      subscription \in getById(c.rows, id)})

cancel(c, id, requesterId, dto, isAdmin, fail, t, retrieveOk) ==
  Returning(
  IF Fetch(c.rows, id, requesterId, isAdmin) # "none"
  THEN Fail(c, Fetch(c.rows, id, requesterId, isAdmin))
  ELSE The({
    IF ~CancelGuard(subscription.status) THEN Fail(c, "already_canceled")
    ELSE IF ~IsExternal(subscription)
    THEN LocalWrite(c, id, CancelUpdates(subscription, dto, t), fail, "db")
    ELSE IF fail = "subscriptions.cancel"
            \/ subscription.stripe_subscription_id \notin DOMAIN c.gw
    THEN Fail(Called(c, "subscriptions.cancel"), "gateway")
    ELSE The({
      IF c2.err # "none" THEN c2
      ELSE LocalWrite(c2, id, CancelUpdates(subscription, dto, t), fail, "db") :
        c2 \in {SyncIn(GwPut(Called(c, "subscriptions.cancel"), canceledStripe),
                       canceledStripe, [cancel_reason |-> dto.reason], t,
                       retrieveOk) :
                  canceledStripe \in
                    {GwSubscriptionsCancel(
                       c.gw[subscription.stripe_subscription_id])}}}) :
      subscription \in getById(c.rows, id)}),
    id)

\* remove cancels at the processor before it deletes the row
NeedsCancelFirstNever(subscription) == FALSE

NeedsCancelFirst(subscription) ==
  IsExternal(subscription) /\ subscription.status # "canceled"

RemoveGuardAny(isAdmin, status) == TRUE

RemoveGuard(isAdmin, status) == isAdmin \/ status \in {"canceled", "expired"}

remove(c, id, requesterId, isAdmin, fail, t, retrieveOk) ==
  IF Fetch(c.rows, id, requesterId, isAdmin) # "none"
  THEN Fail(c, Fetch(c.rows, id, requesterId, isAdmin))
  ELSE The({
    IF ~RemoveGuard(isAdmin, subscription.status) THEN Fail(c, "not_deletable")
    ELSE The({
      IF c1.err # "none" THEN c1
      ELSE IF fail = "db.delete" THEN Fail([c1 EXCEPT !.data = {}], "db")
      ELSE [c1 EXCEPT !.rows = DbDelete(@, id), !.data = {}] :
        c1 \in {IF NeedsCancelFirst(subscription)
                THEN cancel(c, id, requesterId,
                            [reason |-> "Deleted via API",
                             stripe_invoice_url |-> UNDEF],
                            isAdmin, fail, t, retrieveOk)
                ELSE c}}) :
      subscription \in getById(c.rows, id)})

\* The columns of update's direct local write.  An absent text field of the
\* request is UNDEF; started_at 0 is absent; ended_at -1 is absent, 0 null.
UpdateUpdatesStatus(subscription, dto, metadataMerged, nowIso) ==
  Spread([last_event_at |-> nowIso],
         IF dto.status # UNDEF THEN [status |-> dto.status] ELSE EmptyMap)

UpdateUpdates(subscription, dto, metadataMerged, nowIso) ==
  LET local == ~IsExternal(subscription)
      Opt(cond, upd) == IF cond THEN upd ELSE EmptyMap
  IN Spread(Spread(Spread(Spread(Spread(Spread(Spread(Spread(Spread(
       [last_event_at |-> nowIso],
       Opt(local /\ dto.status # UNDEF, [status |-> dto.status])),
       Opt(local /\ dto.plan # UNDEF, [plan |-> dto.plan])),
       Opt(local /\ dto.plan_id # UNDEF, [plan_id |-> dto.plan_id])),
       Opt(dto.started_at # 0, [started_at |-> dto.started_at])),
       Opt(dto.ended_at # -1, [ended_at |-> dto.ended_at])),
       Opt(dto.pause_reason # UNDEF, [pause_reason |-> dto.pause_reason])),
       Opt(dto.cancel_reason # UNDEF, [cancel_reason |-> dto.cancel_reason])),
       Opt(dto.stripe_invoice_url # UNDEF,
           [stripe_invoice_url |-> dto.stripe_invoice_url])),
       Opt(~metadataMerged /\ dto.metadata # {},
           [metadata |-> mergeMetadata(subscription.metadata, dto.metadata, {})]))

update(c, id, requesterId, dto, isAdmin, fail, t, retrieveOk) ==
  Returning(
  IF Fetch(c.rows, id, requesterId, isAdmin) # "none"
  THEN Fail(c, Fetch(c.rows, id, requesterId, isAdmin))
  ELSE The({
    IF ~IsExternal(subscription)
    THEN IF Cardinality(DOMAIN UpdateUpdates(subscription, dto, FALSE, t)) > 1
         THEN LocalWrite(c, id, UpdateUpdates(subscription, dto, FALSE, t),
                         fail, "db")
         ELSE c
    ELSE IF fail = "subscriptions.retrieve"
            \/ subscription.stripe_subscription_id \notin DOMAIN c.gw
    THEN Fail(Called(c, "subscriptions.retrieve"), "gateway")
    ELSE The({
      IF price.err # "none"
      THEN Fail(Called(c, "subscriptions.retrieve"), price.err)
      ELSE IF (swap \/ meta) /\ fail = "subscriptions.update"
      THEN Fail(Called(Called(c, "subscriptions.retrieve"),
                       "subscriptions.update"), "gateway")
      ELSE The({
        IF c3.err # "none" THEN c3
        ELSE IF Cardinality(DOMAIN UpdateUpdates(subscription, dto, TRUE, t)) > 1
        THEN LocalWrite(c3, id, UpdateUpdates(subscription, dto, TRUE, t),
                        fail, "db")
        ELSE c3 :
          c3 \in
            {IF swap \/ meta
             THEN The({SyncIn(GwPut(Called(Called(c, "subscriptions.retrieve"),
                                           "subscriptions.update"),
                                    updatedStripe),
                              updatedStripe, custom, t, retrieveOk) :
                         updatedStripe \in
                           {[GwSubscriptionsUpdate(
                               currentStripe,
                               IF swap THEN price.priceId ELSE NULL,
                               IF meta THEN {Spread(currentStripe.metadata,
                                                    The(dto.metadata))}
                               ELSE {})
                               EXCEPT !.latest_invoice.kind =
                                        IF @ = "none" THEN @ ELSE "id"]}})
             ELSE SyncIn(Called(c, "subscriptions.retrieve"), currentStripe,
                         custom, t, retrieveOk) :
               custom \in {IF dto.metadata # {} THEN The(dto.metadata)
                           ELSE EmptyMap}}}) :
        price \in {resolvePrice(dto)},
        currentStripe \in {Expanded(c.gw[subscription.stripe_subscription_id])},
        meta \in {dto.metadata # {} /\ DOMAIN The(dto.metadata) # {}},
        swap \in {/\ resolvePrice(dto).priceId # NULL
                  /\ c.gw[subscription.stripe_subscription_id].price.id # NULL
                  /\ resolvePrice(dto).priceId #
                       c.gw[subscription.stripe_subscription_id].price.id}}) :
      subscription \in getById(c.rows, id)}),
    id)

\* -------------------------------------------------------- Webhook Ingress
\* a handler that does not look whether the session names a subscription
handleCheckoutSessionUnguarded(c, session, fail, t, retrieveOk) ==
  IF session.mode # "subscription" THEN c
  ELSE IF fail = "subscriptions.retrieve" \/ session.subscription \notin DOMAIN c.gw
  THEN Fail(Called(c, "subscriptions.retrieve"), "gateway")
  ELSE SyncIn(Called(c, "subscriptions.retrieve"),
              Expanded(c.gw[session.subscription]), session.metadata, t,
              retrieveOk)

handleCheckoutSession(c, session, fail, t, retrieveOk) ==
  IF session.mode # "subscription" THEN c
  ELSE IF session.subscription = NoStripeId THEN c
  ELSE IF fail = "subscriptions.retrieve" \/ session.subscription \notin DOMAIN c.gw
  THEN Fail(Called(c, "subscriptions.retrieve"), "gateway")
  ELSE SyncIn(Called(c, "subscriptions.retrieve"),
              Expanded(c.gw[session.subscription]), session.metadata, t,
              retrieveOk)

SubscriptionEvents ==
  {"customer.subscription.created", "customer.subscription.updated",
   "customer.subscription.deleted", "customer.subscription.paused",
   "customer.subscription.resumed"}

CheckoutEvents ==
  {"checkout.session.async_payment_failed",
   "checkout.session.async_payment_succeeded", "checkout.session.completed",
   "checkout.session.expired"}

\* signature: "missing" (no header), "invalid" (constructEvent throws) or
\* "valid"
SignatureOkAny(signature) == TRUE

SignatureOk(signature) == signature = "valid"

handleWebhook(c, signature, event, fail, t, retrieveOk) ==
  IF ~SignatureOk(signature) THEN Fail(c, "bad_signature")
  ELSE IF event.type \in {"product.created", "product.updated", "product.deleted"}
  THEN [c EXCEPT !.plans = syncFromProduct(@, event.object),
                 !.ran = {"plans.syncFromProduct"}]
  ELSE IF event.type \in {"price.created", "price.updated", "price.deleted"}
  THEN [c EXCEPT !.plans = syncFromPrice(@, event.object),
                 !.ran = {"plans.syncFromPrice"}]
  ELSE IF event.type \in {"customer.created", "customer.updated"}
  THEN [c EXCEPT !.custs = customersSyncFromStripe(@, event.object),
                 !.ran = {"customers.syncFromStripe"}]
  ELSE IF event.type = "customer.deleted"
  THEN IF ~event.object.deleted THEN c
       ELSE [c EXCEPT !.custs = deleteByStripeId(@, event.object.id),
                      !.ran = {"customers.deleteByStripeId"}]
  ELSE IF event.type \in SubscriptionEvents
  THEN [SyncIn(c, event.object, EmptyMap, t, retrieveOk) EXCEPT
          !.ran = {"subscriptions.syncFromStripe"}]
  ELSE IF event.type \in CheckoutEvents
  THEN [handleCheckoutSession(c, event.object, fail, t, retrieveOk) EXCEPT
          !.ran = {"subscriptions.handleCheckoutSession"}]
  ELSE c

\* CheckoutController.createCheckoutSession
createCheckoutSession(c, user, fail) ==
  The({IF ens.ctx.err # "none" THEN ens.ctx
       ELSE IF fail = "checkout.sessions.create"
       THEN Fail(Called(ens.ctx, "checkout.sessions.create"), "gateway")
       ELSE [Called(ens.ctx, "checkout.sessions.create") EXCEPT
               !.data = {[customer |-> ens.customer, user_id |-> user]}] :
         ens \in {ensureCustomer(c, user, Email(user), fail)}})

\* ------------------------------------------------------------ the requests
Absent(dtoStatus) ==
  [user_id |-> UNDEF, plan |-> UNDEF, plan_id |-> UNDEF,
   stripe_price_id |-> UNDEF, status |-> dtoStatus, trial_period_days |-> 0,
   started_at |-> 0, ended_at |-> -1, stripe_invoice_url |-> UNDEF,
   pause_reason |-> UNDEF, cancel_reason |-> UNDEF, metadata |-> {}]

CreateDtos ==
  {[Absent(UNDEF) EXCEPT !.plan_id = "plan_gold"],
   [Absent(UNDEF) EXCEPT !.plan_id = "plan_gold", !.trial_period_days = 7,
                         !.metadata = {[k |-> "v1"]}],
   [Absent(UNDEF) EXCEPT !.stripe_price_id = "price_raw", !.user_id = "u2"],
   [Absent(UNDEF) EXCEPT !.plan_id = "plan_missing"],
   [Absent(UNDEF) EXCEPT !.plan = "Silver"],
   [Absent(UNDEF) EXCEPT !.plan_id = "plan_gold", !.user_id = BadUser]}

UpdateDtos ==
  {Absent(UNDEF),
   [Absent("active") EXCEPT !.plan_id = "plan_gold"],
   [Absent("expired") EXCEPT !.stripe_invoice_url = "url_dto"],
   [Absent(UNDEF) EXCEPT !.stripe_price_id = "price_raw",
                         !.status = UNDEF],
   [Absent(UNDEF) EXCEPT !.metadata = {[k |-> "v2"]}, !.user_id = "u2"],
   [Absent(UNDEF) EXCEPT !.cancel_reason = "r2", !.ended_at = 0,
                         !.plan = "Silver"]}

PauseDtos == {[reason |-> UNDEF], [reason |-> "r1"]}

ResumeDtos ==
  {[plan |-> UNDEF, stripe_invoice_url |-> UNDEF],
   [plan |-> "Silver", stripe_invoice_url |-> "url_dto"]}

CancelDtos ==
  {[reason |-> UNDEF, stripe_invoice_url |-> UNDEF],
   [reason |-> "r1", stripe_invoice_url |-> "url_dto"]}

Ids == 0..MaxRows

\* Who asks: a user, another user, and an administrator.
Callers ==
  {[id |-> "u1", admin |-> FALSE], [id |-> "u2", admin |-> FALSE],
   [id |-> "u2", admin |-> TRUE]}

\* What a handler observed of the row it was asked about.
Pre(rows, id) ==
  {[status |-> r.status, external |-> IsExternal(r), user |-> r.user_id,
    stripe |-> r.stripe_subscription_id] :
     r \in getById(rows, id)}

\* The row asked about belongs to the requester.
Own(rows, id, requesterId) == \E r \in getById(rows, id) : r.user_id = requesterId

\* The context a request starts from.
Now == Ctx(subs, nextId, custs, gwSubs, gwCusts)

\* The state after a request, and its record in `last`.  asked is what the
\* request carried as far as the handler came to read it: update and cancel
\* read their patch after the row was found and may be acted on.
Commit(ctx, op, id, admin, allowed, pre, slot, asked, fault, own, target) ==
  /\ last = NoRequest
  /\ served < MaxRequests
  /\ \E c \in {ctx} :
       /\ c.nextId <= MaxRows + 1
       /\ Cardinality(DOMAIN c.gw) <= MaxStripeSubs
       /\ c.gwCusts <= MaxCustomers \/ c.gwCusts = gwCusts
       /\ subs' = c.rows
       /\ nextId' = c.nextId
       /\ custs' = c.custs
       /\ gwSubs' = c.gw
       /\ gwCusts' = c.gwCusts
       /\ last' = [op |-> op, id |-> id, admin |-> admin, allowed |-> allowed,
                   pre |-> pre, slot |-> slot, asked |-> asked, fault |-> fault,
                   own |-> own, target |-> target,
                   err |-> c.err, calls |-> c.calls, cols |-> c.cols,
                   data |-> c.data,
                   changed |-> c.rows # subs, custsChanged |-> c.custs # custs]
  /\ served' = served + 1
  /\ UNCHANGED <<events, probe, syncs, plans>>

Create ==
  \E who \in Callers, dto \in CreateDtos,
     fail \in {"none", "customers.create", "subscriptions.create"},
     paid \in BOOLEAN, t \in Clock :
    LET target == IF dto.user_id # UNDEF THEN dto.user_id ELSE who.id
    IN Commit(create(Now, who.id, dto, who.admin, fail, paid, t, TRUE),
              "create", BadId, who.admin,
              isValidUUID(target) /\ (who.admin \/ target = who.id), {},
              \E r \in subs : /\ r.user_id = target
                              /\ r.status \in ACTIVE_STATUSES \cup {"paused"},
              [plan_id |-> dto.plan_id, stripe_price_id |-> dto.stripe_price_id],
              fail, target = who.id, target)

FindOne ==
  \E id \in Ids, who \in Callers :
    Commit(findOne(Now, id, who.id, who.admin), "findOne", id, who.admin,
           Fetch(subs, id, who.id, who.admin) = "none", Pre(subs, id), FALSE,
           UNDEF, "none", Own(subs, id, who.id), UNDEF)

Update ==
  \E id \in Ids, who \in Callers, dto \in UpdateDtos,
     fail \in {"none", "subscriptions.retrieve", "subscriptions.update", "db.write"},
     t \in Clock :
    Commit(update(Now, id, who.id, dto, who.admin, fail, t, TRUE),
           "update", id, who.admin, Fetch(subs, id, who.id, who.admin) = "none",
           Pre(subs, id), FALSE,
           IF Fetch(subs, id, who.id, who.admin) = "none"
           THEN [status |-> dto.status, stripe_price_id |-> dto.stripe_price_id,
                 plan_id |-> dto.plan_id, metadata |-> dto.metadata]
           ELSE UNDEF, fail,
           Own(subs, id, who.id), UNDEF)

Pause ==
  \E id \in Ids, who \in Callers, dto \in PauseDtos,
     fail \in {"none", "subscriptions.update", "db.write"},
     t \in Clock :
    Commit(pause(Now, id, who.id, dto, who.admin, fail, t, TRUE),
           "pause", id, who.admin, Fetch(subs, id, who.id, who.admin) = "none",
           Pre(subs, id), FALSE, UNDEF, fail,
           Own(subs, id, who.id), UNDEF)

Resume ==
  \E id \in Ids, who \in Callers, dto \in ResumeDtos,
     fail \in {"none", "subscriptions.update", "db.write"},
     t \in Clock :
    Commit(resume(Now, id, who.id, dto, who.admin, fail, t, TRUE),
           "resume", id, who.admin, Fetch(subs, id, who.id, who.admin) = "none",
           Pre(subs, id), FALSE, UNDEF, fail,
           Own(subs, id, who.id), UNDEF)

Cancel ==
  \E id \in Ids, who \in Callers, dto \in CancelDtos,
     fail \in {"none", "subscriptions.cancel", "db.write"},
     t \in Clock, retrieveOk \in BOOLEAN :
    Commit(cancel(Now, id, who.id, dto, who.admin, fail, t, retrieveOk),
           "cancel", id, who.admin, Fetch(subs, id, who.id, who.admin) = "none",
           Pre(subs, id), FALSE,
           IF Fetch(subs, id, who.id, who.admin) = "none"
           THEN [stripe_invoice_url |-> dto.stripe_invoice_url,
                 retrieveOk |-> retrieveOk]
           ELSE UNDEF, fail,
           Own(subs, id, who.id), UNDEF)

Remove ==
  \E id \in Ids, who \in Callers,
     fail \in {"none", "subscriptions.cancel", "db.write", "db.delete"},
     t \in Clock :
    Commit(remove(Now, id, who.id, who.admin, fail, t, TRUE),
           "remove", id, who.admin, Fetch(subs, id, who.id, who.admin) = "none",
           Pre(subs, id), FALSE, UNDEF, fail,
           Own(subs, id, who.id), UNDEF)

CreateCheckoutSession ==
  \E user \in Users, fail \in {"none", "customers.create", "checkout.sessions.create"} :
    Commit(createCheckoutSession(Now, user, fail), "checkout", BadId, FALSE,
           TRUE, {m \in custs : m.user_id = user}, FALSE, UNDEF, fail, TRUE,
           user)

\* A webhook delivery: the processor hands over one of its pending events;
\* it keeps the event when the delivery is refused and may deliver an
\* accepted event again.
Webhook ==
  \E e \in events, signature \in {"missing", "invalid", "valid"},
     fail \in {"none", "subscriptions.retrieve"}, t \in Clock,
     retrieveOk \in BOOLEAN, again \in BOOLEAN :
    /\ last = NoRequest
    /\ served < MaxRequests
    /\ \E c \in {handleWebhook(Now, signature, e, fail, t, retrieveOk)} :
         /\ c.nextId <= MaxRows + 1
         /\ subs' = c.rows
         /\ nextId' = c.nextId
         /\ custs' = c.custs
         /\ plans' = c.plans
         /\ events' = IF c.err # "none" \/ again THEN events ELSE events \ {e}
         /\ last' = [op |-> "webhook", id |-> BadId, admin |-> FALSE,
                     allowed |-> signature = "valid", pre |-> {}, slot |-> FALSE,
                     asked |-> e.type, fault |-> fail, err |-> c.err,
                     calls |-> c.calls, cols |-> c.cols, changed |-> c.rows # subs,
                     own |-> FALSE, target |-> UNDEF, data |-> {},
                     custsChanged |-> c.custs # custs,
                     plansChanged |-> c.plans # plans, ran |-> c.ran,
                     event |-> e.object]
    /\ served' = served + 1
    /\ UNCHANGED <<gwSubs, gwCusts, probe, syncs>>

\* The answer of the last request has gone to its caller.
Respond ==
  /\ last # NoRequest
  /\ last' = NoRequest
  /\ UNCHANGED <<subs, nextId, custs, gwSubs, gwCusts, events, probe, syncs, served, plans>>

\* ------------------------------------------------------------ the processor
\* What happens at the processor without the backend: customers and
\* subscriptions made in hosted checkout or in the dashboard, status changes
\* of the billing cycle, and the emission of webhook events.
ProcessorNewCustomer ==
  /\ last = NoRequest
  /\ gwCusts < MaxCustomers
  /\ gwCusts' = gwCusts + 1
  /\ UNCHANGED <<subs, nextId, custs, gwSubs, events, last, probe, syncs, served, plans>>

ProcessorCreate ==
  \E customer \in 1..gwCusts,
     o \in {[price |-> "price_gold", md |-> EmptyMap],
            [price |-> "price_raw", md |-> [user_id |-> "u2"]]} :
    /\ last = NoRequest
    /\ Cardinality(DOMAIN gwSubs) < MaxStripeSubs
    /\ gwSubs' = Spread(gwSubs,
         [i \in {Cardinality(DOMAIN gwSubs) + 1} |->
            GwSubscriptionsCreate(gwSubs, customer, o.price, 0, o.md, TRUE)])
    /\ UNCHANGED <<subs, nextId, custs, gwCusts, events, last, probe, syncs, served, plans>>

ProcessorChange ==
  \E sid \in DOMAIN gwSubs, st \in {"active", "past_due", "paused", "canceled"} :
    /\ last = NoRequest
    /\ gwSubs[sid].status # "canceled"
    /\ gwSubs[sid].status # st
    /\ gwSubs' = [gwSubs EXCEPT ![sid] =
         IF st = "canceled" THEN [@ EXCEPT !.status = st, !.ended_at = 3]
         ELSE [@ EXCEPT !.status = st]]
    /\ UNCHANGED <<subs, nextId, custs, gwCusts, events, last, probe, syncs, served, plans>>

ProcessorEmit ==
  /\ last = NoRequest
  /\ Cardinality(events) < MaxEvents
  /\ \E sid \in DOMAIN gwSubs :
       \/ events' = events \cup
            {[type |-> "customer.subscription.updated", object |-> gwSubs[sid]]}
       \/ \E m \in custs, subId \in {sid, NoStripeId},
             mode \in {"subscription", "payment"} :
            /\ m.stripe_customer_id = gwSubs[sid].customer
            /\ events' = events \cup
                 {[type |-> "checkout.session.completed",
                   object |-> [mode |-> mode, subscription |-> subId,
                               metadata |-> [user_id |-> m.user_id]]]}
  /\ UNCHANGED <<subs, nextId, custs, gwSubs, gwCusts, last, probe, syncs, served, plans>>

\* ------------------------------------------------------------ specification
LegacyStores ==
  {{}, {Row(1, "u1", "Silver", NULL, NoStripeId, NoCustomer, "active", EmptyMap)}}

Init ==
  /\ subs \in LegacyStores
  /\ nextId = Cardinality(subs) + 1
  /\ custs = {}
  /\ gwSubs = EmptyMap
  /\ gwCusts = 0
  /\ events = {}
  /\ last = NoRequest
  /\ probe = Idle
  /\ syncs = NoSyncs
  /\ served = 0
  /\ plans = Plans

Next ==
  \/ Create
  \/ FindOne
  \/ Update
  \/ Pause
  \/ Resume
  \/ Cancel
  \/ Remove
  \/ CreateCheckoutSession
  \/ Webhook
  \/ Respond
  \/ ProcessorNewCustomer
  \/ ProcessorCreate
  \/ ProcessorChange
  \/ ProcessorEmit

Spec == Init /\ [][Next]_vars

\* ------------------------------------------------- racing reconciliations
\* Webhook deliveries for the same external subscription handled at the
\* same time: each syncFromStripe first looks the row up and, after its
\* other awaits, writes; the store serves the calls in any order.
MaxSyncs == 2

RaceSnapshots ==
  {Snapshot(1, 1, st, NULL, GwPrice("price_gold"), EmptyMap, NoInvoice, en, 0) :
     st \in {"active", "past_due"}, en \in {0}}
  \cup {Snapshot(1, 1, "canceled", NULL, GwPrice("price_gold"), EmptyMap,
                 NoInvoice, 3, 3)}

RaceStores ==
  {{},
   {Row(1, "u1", "Silver", NULL, NoStripeId, NoCustomer, "canceled", EmptyMap)},
   {Row(1, "u1", "Gold", "plan_gold", 1, 1, "trialing", [stripe |-> EmptyMap])}}

RaceInit ==
  /\ subs \in RaceStores
  /\ nextId = Cardinality(subs) + 1
  /\ custs \in {{}, {[user_id |-> "u1", stripe_customer_id |-> 1,
                      email |-> "mail"]}}
  /\ gwSubs = EmptyMap
  /\ gwCusts = 1
  /\ events = {}
  /\ last = NoRequest
  /\ probe = Idle
  /\ served = 0
  /\ plans = Plans
  /\ syncs \in [1..MaxSyncs ->
                  {[pc |-> "read", snap |-> s, existing |-> {}, err |-> "none",
                    skipped |-> FALSE, seq |-> 0] : s \in RaceSnapshots}]

\* const existing = await this.findByStripeSubscriptionId(subscription.id)
RaceRead(p) ==
  /\ syncs[p].pc = "read"
  /\ syncs' = [syncs EXCEPT
       ![p].pc = "write",
       ![p].existing = findByStripeSubscriptionId(subs, syncs[p].snap.id)]
  /\ UNCHANGED <<subs, nextId, custs, gwSubs, gwCusts, events, last, probe, served, plans>>

\* the rest of syncFromStripe, with the row it looked up earlier
RaceWrite(p) ==
  /\ syncs[p].pc = "write"
  /\ \E t \in Clock :
       \E r \in {syncWrite(subs, nextId, custs, syncs[p].existing,
                           syncs[p].snap, EmptyMap, t, TRUE)} :
          /\ subs' = r.rows
          /\ nextId' = IF r.inserted THEN nextId + 1 ELSE nextId
          /\ syncs' = [syncs EXCEPT
               ![p].pc = "done",
               ![p].err = r.err,
               ![p].skipped = ~r.wrote /\ r.err = "none",
               ![p].seq = 1 + Cardinality({q \in DOMAIN syncs :
                                             syncs[q].pc = "done"})]
  /\ UNCHANGED <<custs, gwSubs, gwCusts, events, last, probe, served, plans>>

RaceNext ==
  \/ \E p \in DOMAIN syncs : RaceRead(p)
  \/ \E p \in DOMAIN syncs : RaceWrite(p)

SpecRace == RaceInit /\ [][RaceNext]_vars

\* ------------------------------------------------------ the webhook route
\* The events the processor may send to the webhook route, each delivered
\* with a good, a bad or no signature header.
IngressEvents ==
  {[type |-> "product.updated",
    object |-> [id |-> "prod_gold", name |-> "Gold Plus", active |-> FALSE]],
   [type |-> "price.updated",
    object |-> [id |-> "price_gold2", product |-> "prod_gold",
                nickname |-> NULL, active |-> TRUE]],
   [type |-> "price.created",
    object |-> [id |-> "price_raw", product |-> "prod_raw",
                nickname |-> "Raw", active |-> TRUE]],
   [type |-> "customer.created",
    object |-> [id |-> 2, email |-> "mail2", metadata |-> [user_id |-> "u2"]]],
   [type |-> "customer.updated",
    object |-> [id |-> 1, email |-> "mail1", metadata |-> EmptyMap]],
   [type |-> "customer.deleted", object |-> [id |-> 1, deleted |-> TRUE]],
   [type |-> "invoice.paid", object |-> [id |-> 1]],
   [type |-> "checkout.session.completed",
    object |-> [mode |-> "subscription", subscription |-> 1,
                metadata |-> [user_id |-> "u2"]]],
   [type |-> "checkout.session.completed",
    object |-> [mode |-> "payment", subscription |-> NoStripeId,
                metadata |-> [user_id |-> "u2"]]],
   [type |-> "checkout.session.expired",
    object |-> [mode |-> "subscription", subscription |-> NoStripeId,
                metadata |-> [user_id |-> "u2"]]]}
  \cup {[type |-> "customer.subscription.updated",
         object |-> Snapshot(1, customer, "past_due", NULL, GwPrice(price),
                             md, NoInvoice, 0, 0)] :
          customer \in {1, 2}, price \in {"price_gold", "price_bare"},
          md \in {EmptyMap, [user_id |-> "u2"], [user_id |-> BadUser]}}
  \cup {[type |-> "customer.subscription.updated",
         object |-> Snapshot(1, NoCustomer, "past_due", NULL,
                             GwPrice("price_gold"), [user_id |-> "u2"],
                             NoInvoice, 0, 0)]}

IngressInit ==
  /\ subs \in {{}, {Row(1, "u1", "Silver", NULL, NoStripeId, NoCustomer, "canceled",
                        EmptyMap)}}
  /\ nextId = Cardinality(subs) + 1
  /\ custs \in {{}, {[user_id |-> "u1", stripe_customer_id |-> 1,
                      email |-> "mail"]}}
  /\ gwCusts = 2
  /\ gwSubs = [i \in {1} |->
                 Snapshot(1, 2, "active", NULL, GwPrice("price_gold"),
                          [user_id |-> "u2"], GwInvoice, 0, 0)]
  /\ events = IngressEvents
  /\ last = NoRequest
  /\ probe = Idle
  /\ syncs = NoSyncs
  /\ served = 0
  /\ plans = Plans

IngressNext ==
  \/ Webhook
  \/ Respond

SpecIngress == IngressInit /\ [][IngressNext]_vars

\* -------------------------------------------------------- racing creates
\* create calls handled at the same time: a call is suspended at each of
\* its awaits, and the store and the processor serve the calls in any
\* order.  `syncs` holds the calls in flight.  ensureCustomer is taken as
\* one step.
CreateRaceInit ==
  /\ subs \in {{}, {Row(1, "u1", "Silver", NULL, NoStripeId, NoCustomer,
                        "canceled", EmptyMap)}}
  /\ nextId = Cardinality(subs) + 1
  /\ custs \in {{}, {[user_id |-> "u1", stripe_customer_id |-> 1,
                      email |-> "mail"]}}
  /\ gwCusts = Cardinality(custs)
  /\ gwSubs = EmptyMap
  /\ events = {}
  /\ last = NoRequest
  /\ probe = Idle
  /\ served = 0
  /\ plans = Plans
  /\ syncs \in [1..MaxSyncs ->
                  {[pc |-> "check", user |-> u, trial |-> d, paid |-> paid,
                    customer |-> NoCustomer, snap |-> {}, err |-> "none"] :
                     u \in Users, d \in {0, 7}, paid \in BOOLEAN}]

\* await this.ensureUserCanStartNew(targetUserId), then resolvePrice
CreateRaceCheck(p) ==
  /\ syncs[p].pc = "check"
  /\ syncs' = [syncs EXCEPT ![p] =
       IF ensureUserCanStartNew(subs, syncs[p].user)
       THEN [@ EXCEPT !.pc = "customer"]
       ELSE [@ EXCEPT !.pc = "done", !.err = "active_exists"]]
  /\ UNCHANGED <<subs, nextId, custs, gwSubs, gwCusts, events, last, probe, served, plans>>

\* await this.customersService.ensureCustomer({userId: targetUserId, ...})
CreateRaceCustomer(p) ==
  /\ syncs[p].pc = "customer"
  /\ \E ens \in {ensureCustomer(Now, syncs[p].user, Email(syncs[p].user), "none")} :
       /\ custs' = ens.ctx.custs
       /\ gwCusts' = ens.ctx.gwCusts
       /\ syncs' = [syncs EXCEPT ![p] =
            IF ens.ctx.err # "none"
            THEN [@ EXCEPT !.pc = "done", !.err = ens.ctx.err]
            ELSE [@ EXCEPT !.pc = "gateway", !.customer = ens.customer]]
  /\ UNCHANGED <<subs, nextId, gwSubs, events, last, probe, served, plans>>

\* await stripe.subscriptions.create({...})
CreateRaceGateway(p) ==
  /\ syncs[p].pc = "gateway"
  /\ \E subscription \in
         {Expanded(GwSubscriptionsCreate(
            gwSubs, syncs[p].customer, "price_gold", syncs[p].trial,
            CreateMetadata(syncs[p].user,
                           resolvePrice([Absent(UNDEF) EXCEPT
                                           !.plan_id = "plan_gold"]),
                           Absent(UNDEF)),
            syncs[p].paid))} :
       /\ gwSubs' = Spread(gwSubs, [i \in {subscription.id} |->
                             [subscription EXCEPT !.latest_invoice.kind = "id"]])
       /\ syncs' = [syncs EXCEPT ![p].pc = "sync", ![p].snap = {subscription}]
  /\ UNCHANGED <<subs, nextId, custs, gwCusts, events, last, probe, served, plans>>

\* await this.syncFromStripe(subscription, ...), then
\* findByStripeSubscriptionId(subscription.id)
CreateRaceSync(p) ==
  /\ syncs[p].pc = "sync"
  /\ \E t \in Clock :
       \E r \in {syncFromStripe(subs, nextId, custs, The(syncs[p].snap), EmptyMap,
                                t, TRUE)} :
          /\ subs' = r.rows
          /\ nextId' = IF r.inserted THEN nextId + 1 ELSE nextId
          /\ syncs' = [syncs EXCEPT
               ![p].pc = "done",
               ![p].err = IF r.err # "none" THEN r.err
                          ELSE IF findByStripeSubscriptionId(
                                    r.rows, The(syncs[p].snap).id) = {}
                          THEN "not_persisted"
                          ELSE "none"]
  /\ UNCHANGED <<custs, gwSubs, gwCusts, events, last, probe, served, plans>>

CreateRaceNext ==
  \/ \E p \in DOMAIN syncs : CreateRaceCheck(p)
  \/ \E p \in DOMAIN syncs : CreateRaceCustomer(p)
  \/ \E p \in DOMAIN syncs : CreateRaceGateway(p)
  \/ \E p \in DOMAIN syncs : CreateRaceSync(p)

SpecCreateRace == CreateRaceInit /\ [][CreateRaceNext]_vars

\* ------------------------------------------------ racing ensureCustomer
\* ensureCustomer calls handled at the same time (from create or from the
\* checkout session route): each call is suspended at its awaits.
\* `syncs` holds the calls in flight; .made is the customer the call
\* created at the processor, .customer the customer it returned.
EnsureRaceInit ==
  /\ subs = {}
  /\ nextId = 1
  /\ custs \in {{}} \cup {{[user_id |-> "u1", stripe_customer_id |-> 1,
                            email |-> e]} : e \in {"mail", "old"}}
  /\ gwCusts = Cardinality(custs)
  /\ gwSubs = EmptyMap
  /\ events = {}
  /\ last = NoRequest
  /\ probe = Idle
  /\ served = 0
  /\ plans = Plans
  /\ syncs \in [1..MaxSyncs ->
                  {[pc |-> "read", user |-> u, existing |-> {},
                    made |-> NoCustomer, customer |-> NoCustomer,
                    err |-> "none"] : u \in Users}]

\* const existing = await this.findByUserId(options.userId)
EnsureRaceRead(p) ==
  /\ syncs[p].pc = "read"
  /\ \E existing \in {findByUserId(custs, syncs[p].user)} :
       syncs' = [syncs EXCEPT ![p] =
         IF existing # {} /\ The(existing).email = Email(syncs[p].user)
         THEN [@ EXCEPT !.pc = "done", !.existing = existing,
                        !.customer = The(existing).stripe_customer_id]
         ELSE [@ EXCEPT !.pc = "gateway", !.existing = existing]]
  /\ UNCHANGED <<subs, nextId, custs, gwSubs, gwCusts, events, last, probe, served, plans>>

\* await stripe.customers.update(...) for a mapping found, else
\* await stripe.customers.create(...)
EnsureRaceGateway(p) ==
  /\ syncs[p].pc = "gateway"
  /\ gwCusts' = IF syncs[p].existing # {} THEN gwCusts ELSE gwCusts + 1
  /\ syncs' = [syncs EXCEPT ![p].pc = "store",
                            ![p].made = IF syncs[p].existing # {} THEN NoCustomer
                                        ELSE gwCusts + 1]
  /\ UNCHANGED <<subs, nextId, custs, gwSubs, events, last, probe, served, plans>>

\* await this.updateLocal(existing.id, {email}) for a mapping found, else
\* the insert of the new mapping, which the unique columns may refuse
EnsureRaceStore(p) ==
  /\ syncs[p].pc = "store"
  /\ IF syncs[p].existing # {}
     THEN /\ custs' = {IF m.stripe_customer_id =
                            The(syncs[p].existing).stripe_customer_id
                        THEN [m EXCEPT !.email = Email(syncs[p].user)]
                        ELSE m : m \in custs}
          /\ syncs' = [syncs EXCEPT
               ![p].pc = "done",
               ![p].customer = The(syncs[p].existing).stripe_customer_id]
     ELSE IF \E m \in custs : \/ m.user_id = syncs[p].user
                               \/ m.stripe_customer_id = syncs[p].made
     THEN /\ custs' = custs
          /\ syncs' = [syncs EXCEPT ![p].pc = "done", ![p].err = "db"]
     ELSE /\ custs' = custs \cup {[user_id |-> syncs[p].user,
                                    stripe_customer_id |-> syncs[p].made,
                                    email |-> Email(syncs[p].user)]}
          /\ syncs' = [syncs EXCEPT ![p].pc = "done",
                                    ![p].customer = syncs[p].made]
  /\ UNCHANGED <<subs, nextId, gwSubs, gwCusts, events, last, probe, served, plans>>

EnsureRaceNext ==
  \/ \E p \in DOMAIN syncs : EnsureRaceRead(p)
  \/ \E p \in DOMAIN syncs : EnsureRaceGateway(p)
  \/ \E p \in DOMAIN syncs : EnsureRaceStore(p)

SpecEnsureRace == EnsureRaceInit /\ [][EnsureRaceNext]_vars

\* ------------------------------------------- racing status transitions
\* pause, resume and cancel handled at the same time on one row without a
\* stripe_subscription_id: each call first reads the row (getById) and
\* later sends the write it computed from the row it read.
StatusRaceInit ==
  /\ subs \in {{Row(1, "u1", "Silver", NULL, NoStripeId, NoCustomer, st, EmptyMap)} :
                 st \in {"active", "paused"}}
  /\ nextId = 2
  /\ custs = {}
  /\ gwCusts = 0
  /\ gwSubs = EmptyMap
  /\ events = {}
  /\ last = NoRequest
  /\ probe = Idle
  /\ served = 0
  /\ plans = Plans
  /\ syncs \in [1..MaxSyncs ->
                  {[pc |-> "read", op |-> o, reason |-> d, seen |-> {},
                    err |-> "none"] :
                     o \in {"pause", "resume", "cancel"}, d \in {UNDEF, "r1"}}]

\* const subscription = await this.getById(id)
StatusRaceRead(p) ==
  /\ syncs[p].pc = "read"
  /\ syncs' = [syncs EXCEPT ![p].pc = "write", ![p].seen = getById(subs, 1)]
  /\ UNCHANGED <<subs, nextId, custs, gwSubs, gwCusts, events, last, probe, served, plans>>

\* the status check on the row read, then update(updates).eq('id', id)
StatusRaceWrite(p) ==
  /\ syncs[p].pc = "write"
  /\ \E t \in Clock :
       \E c \in {CASE syncs[p].op = "pause" ->
                       pause(Ctx(syncs[p].seen, nextId, custs, gwSubs, gwCusts),
                             1, "u1", [reason |-> syncs[p].reason], FALSE,
                             "none", t, TRUE)
                  [] syncs[p].op = "resume" ->
                       resume(Ctx(syncs[p].seen, nextId, custs, gwSubs, gwCusts),
                              1, "u1",
                              [plan |-> UNDEF, stripe_invoice_url |-> UNDEF],
                              FALSE, "none", t, TRUE)
                  [] OTHER ->
                       cancel(Ctx(syncs[p].seen, nextId, custs, gwSubs, gwCusts),
                              1, "u1",
                              [reason |-> syncs[p].reason,
                               stripe_invoice_url |-> UNDEF],
                              FALSE, "none", t, TRUE)} :
          /\ subs' = IF c.err # "none" THEN subs
                     ELSE {[col \in DOMAIN r |->
                              IF r.id = 1 /\ col \in c.cols
                              THEN The(getById(c.rows, 1))[col] ELSE r[col]] :
                             r \in subs}
          /\ syncs' = [syncs EXCEPT ![p].pc = "done", ![p].err = c.err]
  /\ UNCHANGED <<nextId, custs, gwSubs, gwCusts, events, last, probe, served, plans>>

StatusRaceNext ==
  \/ \E p \in DOMAIN syncs : StatusRaceRead(p)
  \/ \E p \in DOMAIN syncs : StatusRaceWrite(p)

SpecStatusRace == StatusRaceInit /\ [][StatusRaceNext]_vars

\* --------------------------------------------------- customer mappings
\* Checkout sessions, which call ensureCustomer, and the customer events of
\* the processor about the customers it holds.
CustomersInit ==
  /\ subs = {}
  /\ nextId = 1
  /\ gwCusts \in {0, 2}
  /\ custs \in IF gwCusts = 0 THEN {{}}
              ELSE {{}, {[user_id |-> "u1", stripe_customer_id |-> 1,
                          email |-> "mail"]},
                    {[user_id |-> "u2", stripe_customer_id |-> 1,
                      email |-> "mail2"]},
                    {[user_id |-> "u1", stripe_customer_id |-> 1,
                      email |-> "mail"],
                     [user_id |-> "u2", stripe_customer_id |-> 2,
                      email |-> "mail"]}}
  /\ events =
       {[type |-> ty, object |-> [id |-> id, email |-> "mail", metadata |-> md]] :
          ty \in {"customer.created", "customer.updated"}, id \in 1..gwCusts,
          md \in {EmptyMap, [user_id |-> "u1"], [user_id |-> "u2"]}}
       \cup {[type |-> "customer.deleted", object |-> [id |-> id, deleted |-> TRUE]] :
               id \in 1..gwCusts}
  /\ gwSubs = EmptyMap
  /\ last = NoRequest
  /\ probe = Idle
  /\ syncs = NoSyncs
  /\ served = 0
  /\ plans = Plans

CustomersNext ==
  \/ CreateCheckoutSession
  \/ Webhook
  \/ Respond

SpecCustomers == CustomersInit /\ [][CustomersNext]_vars

\* ------------------------------------------------- the owner of a row
\* Requests and subscription webhooks on a row that exists already, while
\* the customer mapping and the metadata of the processor's subscription
\* may name another user than the row does.
OwnerInit ==
  /\ subs \in {{Row(1, "u1", "Gold", "plan_gold", 1, 1, st, [stripe |-> EmptyMap])} :
                 st \in {"active", "paused"}}
             \cup {{Row(1, "u1", "Silver", NULL, NoStripeId, NoCustomer,
                        "active", EmptyMap)}}
             \cup {{[Row(1, "u1", "Silver", NULL, NoStripeId, NoCustomer,
                         "paused", EmptyMap)
                       EXCEPT !.started_at = sa, !.ended_at = 900,
                              !.pause_reason = "r0"]} : sa \in {NoTime, 1000}}
  /\ nextId = 2
  /\ custs \in {{[user_id |-> u, stripe_customer_id |-> 1, email |-> "mail"]} :
                  u \in Users}
  /\ gwCusts = 1
  /\ \E md \in {EmptyMap, [user_id |-> "u2"]} :
       /\ gwSubs = [i \in {1} |->
                      Snapshot(1, 1, "active", NULL, GwPrice("price_gold"), md,
                               GwInvoice, 0, 0)]
       /\ events \in {{}, {[type |-> "customer.subscription.updated",
                             object |-> Snapshot(1, 1, "past_due", NULL,
                                                 GwPrice("price_gold"), md,
                                                 NoInvoice, 0, 0)]}}
  /\ last = NoRequest
  /\ probe = Idle
  /\ syncs = NoSyncs
  /\ served = 0
  /\ plans = Plans

OwnerNext ==
  \/ Update
  \/ Pause
  \/ Resume
  \/ Cancel
  \/ Remove
  \/ Webhook
  \/ Respond

SpecOwner == OwnerInit /\ [][OwnerNext]_vars

\* remove, and the subscription events the processor sends afterwards
RemovalNext ==
  \/ Remove
  \/ ProcessorEmit
  \/ Webhook
  \/ Respond

SpecRemoval == OwnerInit /\ [][RemovalNext]_vars

\* ------------------------------------------------------ pause and resume
\* pause and resume on a row of an external subscription.  The row may be
\* behind the processor: its status need not be the one the processor has.
\* `probe` remembers the store the requests started from.
RoundTripInit ==
  /\ subs \in {{Row(1, "u1", "Gold", "plan_gold", 1, 1, st, [stripe |-> EmptyMap])} :
                 st \in ACTIVE_STATUSES}
  /\ nextId = 2
  /\ custs = {[user_id |-> "u1", stripe_customer_id |-> 1, email |-> "mail"]}
  /\ gwCusts = 1
  /\ gwSubs \in {[i \in {1} |->
                    Snapshot(1, 1, raw, NULL, GwPrice("price_gold"), EmptyMap,
                             GwInvoice, 0, 0)] : raw \in ACTIVE_STATUSES}
  /\ events = {}
  /\ last = NoRequest
  /\ probe = [phase |-> "idle", start |-> subs]
  /\ syncs = NoSyncs
  /\ served = 0
  /\ plans = Plans

RoundTripNext ==
  \/ Pause
  \/ Resume
  \/ Respond

SpecRoundTrip == RoundTripInit /\ [][RoundTripNext]_vars

\* ------------------------------------------------- deliveries in any order
\* A subscription the processor takes through its billing cycle.  Every
\* change emits a webhook event carrying the subscription as it is then;
\* the pending events are delivered one at a time, in any order.
DeliveryInit ==
  /\ gwSubs = [i \in {1} |->
                 Snapshot(1, 1, "active", NULL, GwPrice("price_gold"), EmptyMap,
                          NoInvoice, 0, 0)]
  /\ gwCusts = 1
  /\ custs = {[user_id |-> "u1", stripe_customer_id |-> 1, email |-> "mail"]}
  /\ subs \in {{Row(1, "u1", "Gold", "plan_gold", 1, 1, "active",
                     [stripe |-> EmptyMap])},
               {Row(1, "u1", "Gold", "plan_gold", 1, 1, "trialing",
                     [stripe |-> EmptyMap]),
                Row(2, "u2", "Silver", NULL, NoStripeId, NoCustomer, "active",
                     EmptyMap)}}
  /\ nextId = Cardinality(subs) + 1
  /\ events = IF \E r \in subs : r.status = "trialing"
              THEN {[type |-> "customer.subscription.updated",
                     object |-> gwSubs[1]]}
              ELSE {}
  /\ last = NoRequest
  /\ probe = Idle
  /\ syncs = NoSyncs
  /\ served = 0
  /\ plans = Plans

\* active -> past_due -> unpaid -> canceled, steps may be skipped
DeliveryChange ==
  \E sid \in DOMAIN gwSubs, st \in {"past_due", "unpaid", "canceled"} :
    /\ last = NoRequest
    /\ gwSubs[sid].status # "canceled"
    /\ gwSubs[sid].status = "active" \/ st # "past_due"
    /\ gwSubs[sid].status # st
    /\ gwSubs' = [gwSubs EXCEPT ![sid] =
         IF st = "canceled"
         THEN [@ EXCEPT !.status = st, !.ended_at = 3, !.canceled_at = 3]
         ELSE [@ EXCEPT !.status = st]]
    /\ events' = events \cup
         {[type |-> IF st = "canceled" THEN "customer.subscription.deleted"
                    ELSE "customer.subscription.updated",
           object |-> gwSubs'[sid]]}
    /\ UNCHANGED <<subs, nextId, custs, gwCusts, last, probe, syncs, served, plans>>

DeliveryNext ==
  \/ DeliveryChange
  \/ Webhook
  \/ Respond

SpecDelivery == DeliveryInit /\ [][DeliveryNext]_vars

\* ------------------------------------------------------------ properties
ActiveLike(r) == r.status \in ACTIVE_STATUSES

SyncedColumns == {"status", "current_period_start", "current_period_end"}

\* C1: in every reachable state each user has at most one subscription row
\* whose status is active, trialing, past_due, unpaid or incomplete.
C1_AtMostOneActiveLike ==
  \A r1, r2 \in subs :
    (r1.user_id = r2.user_id /\ ActiveLike(r1) /\ ActiveLike(r2)) => r1.id = r2.id

\* C2: create for a target user who holds an active-like or paused row is
\* refused with the "active subscription already exists" error whatever plan
\* or price the request names, with no gateway call, no Customer Mapping
\* created and no change to the rows.
C2_CreateRefusedWhenSlotHeld ==
  (last.op = "create" /\ last.allowed /\ last.slot) =>
    /\ last.err = "active_exists"
    /\ ErrorKind(last.err) = "BusinessRule"
    /\ last.calls = {}
    /\ ~last.changed
    /\ ~last.custsChanged

C2_Witness ==
  /\ last.op = "create" /\ last.allowed /\ last.slot
  /\ last.asked.plan_id = "plan_missing"
  /\ last.err = "active_exists"
  /\ \E r \in subs : r.status = "paused"

\* C4: no two rows carry the same non-null stripe_subscription_id, also
\* while deliveries for the same external subscription are handled at the
\* same time; once the deliveries of a snapshot whose owner resolves are
\* all handled, exactly one row carries that external id.
C4_UniqueStripeSubscriptionId ==
  /\ \A r1, r2 \in subs :
       (r1.stripe_subscription_id # NoStripeId
        /\ r1.stripe_subscription_id = r2.stripe_subscription_id) => r1.id = r2.id
  /\ \A p \in DOMAIN syncs :
       ((\A q \in DOMAIN syncs : syncs[q].pc = "done") /\ ~syncs[p].skipped) =>
         Cardinality({r \in subs :
                        r.stripe_subscription_id = syncs[p].snap.id}) = 1

C4_Witness ==
  /\ \A p \in DOMAIN syncs :
       syncs[p].pc = "done" /\ syncs[p].existing = {} /\ ~syncs[p].skipped
  /\ Cardinality({r \in subs : r.stripe_subscription_id = 1}) = 1

\* C5: when two reconciliations of the same unknown external id both read
\* "no existing row" before either writes, both complete without an error
\* and the one row shows the snapshot of the one that wrote last.
C5_ConflictBecomesUpdate ==
  \A p, q \in DOMAIN syncs :
    (/\ p # q
     /\ syncs[p].pc = "done" /\ syncs[q].pc = "done"
     /\ syncs[p].existing = {} /\ syncs[q].existing = {}
     /\ ~syncs[p].skipped /\ ~syncs[q].skipped
     /\ syncs[p].snap.id = syncs[q].snap.id
     /\ syncs[p].seq < syncs[q].seq) =>
      /\ syncs[p].err = "none"
      /\ syncs[q].err = "none"
      /\ \A r \in subs :
           r.stripe_subscription_id = syncs[q].snap.id =>
             r.status = mapStripeStatus(syncs[q].snap)

\* C6: the direct local write of update, pause, resume and cancel (also of
\* the cancel inside remove) on a row with a stripe_subscription_id never
\* contains status, current_period_start or current_period_end, whatever
\* the request carries.
C6_LocalWritesSpareSyncedColumns ==
  (last.op \in {"update", "pause", "resume", "cancel", "remove"}
   /\ \E x \in last.pre : x.external) =>
    last.cols \cap SyncedColumns = {}

C6_Witness ==
  /\ last.op = "update" /\ last.err = "none" /\ last.asked.status = "expired"
  /\ \E x \in last.pre : x.external
  /\ last.cols = {"last_event_at", "stripe_invoice_url"}

\* C7: pause succeeds only from an active-like status; from any other
\* status it is refused with the "only active subscriptions can be paused"
\* error, calls no gateway operation and leaves the rows unchanged.
C7_PauseOnlyFromActiveLike ==
  (last.op = "pause" /\ last.allowed) =>
    \A x \in last.pre :
      /\ x.status \notin ACTIVE_STATUSES =>
           /\ last.err = "not_active"
           /\ ErrorKind(last.err) = "BusinessRule"
           /\ last.calls = {}
           /\ ~last.changed
      /\ last.err = "none" => x.status \in ACTIVE_STATUSES

C7_Witness ==
  /\ last.op = "pause" /\ last.allowed /\ last.err = "not_active"
  /\ \E x \in last.pre : x.external /\ x.status = "canceled"

\* C8: resume succeeds only from paused; from every other status it is
\* refused with the "only paused subscriptions can be resumed" error, calls
\* no gateway operation and leaves the rows unchanged.
C8_ResumeOnlyFromPaused ==
  (last.op = "resume" /\ last.allowed) =>
    \A x \in last.pre :
      /\ x.status # "paused" =>
           /\ last.err = "not_paused"
           /\ ErrorKind(last.err) = "BusinessRule"
           /\ last.calls = {}
           /\ ~last.changed
      /\ last.err = "none" => x.status = "paused"

C8_Witness ==
  /\ last.op = "resume" /\ last.allowed /\ last.err = "not_paused"
  /\ \E x \in last.pre : x.external /\ x.status \in ACTIVE_STATUSES

\* C9: cancel on a row whose status is already canceled is refused with the
\* "already canceled" error, calls no gateway operation and leaves every
\* column of the row as it was.
C9_CancelRefusedWhenCanceled ==
  (last.op = "cancel" /\ last.allowed) =>
    \A x \in last.pre :
      x.status = "canceled" =>
        /\ last.err = "already_canceled"
        /\ ErrorKind(last.err) = "BusinessRule"
        /\ last.calls = {}
        /\ ~last.changed

C9_Witness ==
  /\ last.op = "cancel" /\ last.allowed /\ last.err = "already_canceled"
  /\ \E x \in last.pre : x.external /\ x.status = "canceled"

\* C10: remove by a caller without privilege deletes the row only when its
\* status is canceled or expired and is otherwise refused with no gateway
\* call and the row kept; a privileged caller removes a row in any status
\* (when neither the gateway nor the store fails).
C10_RemoveGuard ==
  (last.op = "remove" /\ last.allowed) =>
    \A x \in last.pre :
      /\ (~last.admin /\ x.status \notin {"canceled", "expired"}) =>
           /\ last.err = "not_deletable"
           /\ ErrorKind(last.err) = "BusinessRule"
           /\ last.calls = {}
           /\ ~last.changed
           /\ \E r \in subs : r.id = last.id
      /\ (~last.admin /\ last.err = "none") =>
           /\ x.status \in {"canceled", "expired"}
           /\ \A r \in subs : r.id # last.id
      /\ (last.admin /\ last.fault = "none") =>
           /\ last.err = "none"
           /\ \A r \in subs : r.id # last.id

C10_Witness ==
  /\ last.op = "remove" /\ last.allowed /\ ~last.admin
  /\ last.err = "not_deletable"
  /\ \E x \in last.pre : x.external /\ x.status \in ACTIVE_STATUSES

\* C11: remove of a row with a stripe_subscription_id whose status is not
\* canceled deletes the row only after stripe.subscriptions.cancel returned
\* and the subscription is canceled at the processor; when the cancel step
\* fails (the gateway call, its reconciliation or its local write) the error
\* is surfaced and the row is still there.
C11_RemoveCancelsFirst ==
  (last.op = "remove" /\ last.allowed) =>
    \A x \in last.pre :
      (x.external /\ x.status # "canceled") =>
        /\ (\A r \in subs : r.id # last.id) =>
             /\ "subscriptions.cancel" \in last.calls
             /\ last.err = "none"
             /\ x.stripe \in DOMAIN gwSubs
             /\ gwSubs[x.stripe].status = "canceled"
        /\ (RemoveGuard(last.admin, x.status)
            /\ last.fault \in {"subscriptions.cancel", "db.write"}) =>
             /\ ErrorKind(last.err) = "Integration"
             /\ \E r \in subs : r.id = last.id
        /\ last.err # "none" => \E r \in subs : r.id = last.id

C11_Witness ==
  /\ last.op = "remove" /\ last.allowed /\ last.err = "none"
  /\ \E x \in last.pre : x.external /\ x.status \in ACTIVE_STATUSES
  /\ "subscriptions.cancel" \in last.calls
  /\ \A r \in subs : r.id # last.id

\* C12: findOne, update, pause, resume, cancel and remove asked by a caller
\* without privilege for a row of another user fail with the Authorization
\* error, return no row, call no gateway operation and leave the rows and
\* the customer mappings unchanged.
C12_ForeignRowRefused ==
  (/\ last.op \in {"findOne", "update", "pause", "resume", "cancel", "remove"}
   /\ ~last.admin
   /\ last.pre # {}
   /\ ~last.own) =>
    /\ last.err = "forbidden"
    /\ ErrorKind(last.err) = "Authorization"
    /\ last.data = {}
    /\ last.calls = {}
    /\ ~last.changed
    /\ ~last.custsChanged

C12_Witness ==
  /\ last.op = "cancel" /\ ~last.admin /\ ~last.own
  /\ \E x \in last.pre : x.external /\ x.status \in ACTIVE_STATUSES
  /\ last.err = "forbidden"

\* C13 as stated: create by a caller without privilege for any target other
\* than the caller fails with the Authorization error, with no gateway call,
\* no customer mapping and no row changed.
C13_AnyForeignTargetForbidden ==
  (last.op = "create" /\ ~last.admin /\ ~last.own) =>
    /\ last.err = "forbidden"
    /\ ErrorKind(last.err) = "Authorization"
    /\ last.calls = {}
    /\ ~last.changed
    /\ ~last.custsChanged

\* C13: create by a caller without privilege for a well-formed target user
\* id other than the caller's fails with the Authorization error, also when
\* the target holds an active-like row, with no gateway call, no customer
\* mapping and no row changed; a malformed target id fails with the
\* Validation error instead; every row such a caller creates carries the
\* caller's own user id.
C13_ForeignTargetForbidden ==
  /\ (last.op = "create" /\ ~last.admin /\ ~last.own) =>
       /\ last.err = IF isValidUUID(last.target) THEN "forbidden"
                     ELSE "invalid_user"
       /\ ErrorKind(last.err) = IF isValidUUID(last.target) THEN "Authorization"
                                ELSE "Validation"
       /\ last.calls = {}
       /\ ~last.changed
       /\ ~last.custsChanged
  /\ (last.op = "create" /\ ~last.admin /\ last.changed) =>
       /\ last.err = "none"
       /\ last.own
       /\ last.data # {}
       /\ \A d \in last.data : d.user_id = last.target

C13_Witness ==
  /\ last.op = "create" /\ ~last.admin /\ ~last.own
  /\ isValidUUID(last.target)
  /\ last.slot
  /\ last.err = "forbidden"

\* C14: when create succeeds for target user U it returns one row, the row
\* a fetch finds right afterwards, whose user_id is U, whose
\* stripe_subscription_id is the id of the subscription the gateway has just
\* made, and whose status is the mapped status of that subscription, an
\* active-like one (active or trialing unless the first payment is open).
C14_CreatedRecord ==
  [][(last'.op = "create" /\ last = NoRequest /\ last'.err = "none") =>
       /\ Cardinality(last'.data) = 1
       /\ \E sid \in DOMAIN gwSubs' \ DOMAIN gwSubs :
            \A d \in last'.data :
              /\ d.user_id = last'.target
              /\ d.stripe_subscription_id # NoStripeId
              /\ d.stripe_subscription_id = sid
              /\ d.status = mapStripeStatus(gwSubs'[sid])
              /\ d.status \in ACTIVE_STATUSES
              /\ gwSubs'[sid].status \in {"active", "trialing"} =>
                   d.status = gwSubs'[sid].status
              /\ getById(subs', d.id) = {d}]_vars

C14_Witness ==
  /\ last.op = "create" /\ last.err = "none"
  /\ \E d \in last.data :
       /\ d.user_id = last.target
       /\ d.stripe_subscription_id # NoStripeId
       /\ d.status = "trialing"

\* C15: when the call create, update, pause, resume or cancel makes to the
\* processor (customers.create, customers.update, subscriptions.create,
\* subscriptions.retrieve, subscriptions.update, subscriptions.cancel) fails,
\* the operation ends with the gateway error, returns nothing, and no
\* subscription row has been inserted or modified.
C15_GatewayFailureLeavesRows ==
  (last.op \in {"create", "update", "pause", "resume", "cancel"}) =>
    /\ last.fault \in last.calls => last.err = "gateway"
    /\ last.err = "gateway" =>
         /\ ErrorKind(last.err) = "Integration"
         /\ last.fault \in last.calls
         /\ last.data = {}
         /\ ~last.changed

C15_Witness ==
  /\ last.op = "cancel" /\ last.allowed
  /\ last.fault = "subscriptions.cancel"
  /\ "subscriptions.cancel" \in last.calls
  /\ last.err = "gateway"
  /\ \E x \in last.pre : x.external /\ x.status \in ACTIVE_STATUSES

\* C16: whenever pause, resume, cancel or update ends with an Integration
\* error (a gateway call or a datastore write failed at whatever step), the
\* rows are as they were before the call and the row still passes the
\* precondition of the operation, so the same call can be repeated.
C16_IntegrationErrorLeavesRow ==
  (/\ last.op \in {"pause", "resume", "cancel", "update"}
   /\ ErrorKind(last.err) = "Integration") =>
    /\ ~last.changed
    /\ \A r \in getById(subs, last.id) :
         /\ last.op = "pause" => PauseGuard(r.status)
         /\ last.op = "resume" => ResumeGuard(r.status)
         /\ last.op = "cancel" => CancelGuard(r.status)

\* C17: once every webhook event the processor emitted has been delivered
\* and answered, in whatever order, each row with a stripe_subscription_id
\* has the status mapStripeStatus gives for the subscription as the
\* processor has it now.
C17_DeliveredRowsFollowProcessor ==
  (events = {} /\ last = NoRequest) =>
    \A r \in subs :
      (IsExternal(r) /\ r.stripe_subscription_id \in DOMAIN gwSubs) =>
        r.status = mapStripeStatus(gwSubs[r.stripe_subscription_id])

\* C18: a webhook delivery with no signature header or with a signature
\* that constructEvent refuses is answered with the client error whatever
\* event it carries: no plan sync, customer sync or subscription
\* reconciliation runs, no gateway call is made, and the subscriptions,
\* the customer mappings and the plans are unchanged.
C18_UnsignedWebhookRejected ==
  (last.op = "webhook" /\ ~last.allowed) =>
    /\ last.err = "bad_signature"
    /\ ErrorKind(last.err) = "Validation"
    /\ last.ran = {}
    /\ last.calls = {}
    /\ ~last.changed
    /\ ~last.custsChanged
    /\ ~last.plansChanged

C18_Witness ==
  /\ last.op = "webhook" /\ ~last.allowed
  /\ last.asked = "customer.subscription.updated"
  /\ last.err = "bad_signature"
  /\ served = 2
  /\ plans # Plans

\* C19: when syncFromStripe finds no row for the snapshot's id, no customer
\* mapping for its customer and no user_id in its metadata, it returns
\* without an error and the rows stay exactly as they were, however often
\* it runs.
C19_UnattributedSnapshotDropped ==
  (/\ probe.phase \in {"1", "2"}
   /\ findByStripeSubscriptionId(probe.start, probe.snap.id) = {}
   /\ ~\E m \in custs : m.stripe_customer_id = probe.snap.customer
   /\ "user_id" \notin DOMAIN probe.snap.metadata) =>
    /\ probe.err = "none"
    /\ probe.once = probe.start
    /\ subs = probe.start
    /\ nextId = 2

C19_Witness ==
  /\ probe.phase = "2"
  /\ probe.start # {}
  /\ findByStripeSubscriptionId(probe.start, probe.snap.id) = {}
  /\ probe.snap.customer = 1 /\ custs = {}
  /\ probe.snap.metadata = EmptyMap
  /\ probe.snap.price.id = "price_gold"
  /\ probe.err = "none"
  /\ subs = probe.start

C21_CanonicalStatus ==
  \A r \in subs \ probe.start :
    r.stripe_subscription_id = probe.snap.id =>
      r.status =
        IF probe.snap.pause_collection # NULL THEN "paused"
        ELSE IF probe.snap.status \in
                  {"active", "trialing", "past_due", "canceled", "incomplete",
                   "incomplete_expired", "unpaid"}
        THEN probe.snap.status
        ELSE "expired"

C21_Witness ==
  /\ probe.phase = "1"
  /\ probe.snap.status = "canceled"
  /\ probe.snap.pause_collection # NULL
  /\ \E r \in subs \ probe.start :
       r.stripe_subscription_id = probe.snap.id /\ r.status = "paused"

\* C22: no step changes the user_id of a row that exists: not update with a
\* user_id in its patch, not pause, resume or cancel, and not a
\* reconciliation of the row, whatever user the customer mapping or the
\* metadata of the snapshot names.
C22_UserIdNeverChanges ==
  [][\A r \in subs, q \in subs' : q.id = r.id => q.user_id = r.user_id]_vars

C22_Witness ==
  /\ last.op = "webhook" /\ last.changed /\ last.err = "none"
  /\ last.event.metadata = [user_id |-> "u2"]
  /\ \E m \in custs : m.stripe_customer_id = last.event.customer /\ m.user_id = "u2"
  /\ \E r \in subs : /\ r.stripe_subscription_id = last.event.id
                       /\ r.status = "past_due"
                       /\ r.last_event_at = 1500
                       /\ r.user_id = "u1"

\* C23: a resume that succeeds on a paused row without a
\* stripe_subscription_id sets status to active and ended_at to null, clears
\* pause_reason, and sets started_at to the time of the call only when it
\* was null; a started_at the row had is kept.
C23_LocalResume ==
  [][(last'.op = "resume" /\ last'.err = "none") =>
       \A r \in subs :
         (r.id = last'.id /\ r.stripe_subscription_id = NoStripeId
          /\ r.status = "paused") =>
           \E q \in subs' :
             /\ q.id = r.id
             /\ q.status = "active"
             /\ q.ended_at = NoTime
             /\ q.pause_reason = NULL
             /\ q.started_at = IF r.started_at = NoTime THEN q.last_event_at
                               ELSE r.started_at]_vars

C23_Witness ==
  /\ last.op = "resume" /\ last.err = "none"
  /\ \E x \in last.pre : ~x.external /\ x.status = "paused"
  /\ \E q \in subs : /\ q.id = last.id /\ q.status = "active"
                       /\ q.ended_at = NoTime /\ q.pause_reason = NULL
                       /\ q.started_at = 1500 /\ q.last_event_at = 1500

\* C24: update, pause, resume, cancel and remove on a row without a
\* stripe_subscription_id call no operation of the processor; when they
\* succeed, the new status is in the columns of the handler's own write
\* (paused, active, canceled, or the status update was asked for) and
\* remove has deleted the row.
C24_LocalOnlyStaysLocal ==
  (/\ last.op \in {"update", "pause", "resume", "cancel", "remove"}
   /\ last.allowed
   /\ \E x \in last.pre : x.stripe = NoStripeId) =>
    /\ last.calls = {}
    /\ (last.err = "none" /\ last.op = "remove") => getById(subs, last.id) = {}
    /\ (/\ last.err = "none"
        /\ \/ last.op \in {"pause", "resume", "cancel"}
           \/ last.op = "update" /\ last.asked.status # UNDEF) =>
         /\ "status" \in last.cols
         /\ \E r \in getById(subs, last.id) :
              r.status = CASE last.op = "pause" -> "paused"
                           [] last.op = "resume" -> "active"
                           [] last.op = "cancel" -> "canceled"
                           [] OTHER -> last.asked.status

C24_Witness ==
  /\ last.op = "update" /\ last.allowed /\ last.err = "none"
  /\ \E x \in last.pre : x.stripe = NoStripeId /\ x.status = "paused"
  /\ last.asked.status = "expired"
  /\ last.calls = {}
  /\ "status" \in last.cols
  /\ \E r \in getById(subs, last.id) : r.status = "expired"

\* C25: a create that passed the identifier, authorization and duplicate
\* checks and names neither a plan_id nor a stripe_price_id (or a plan whose
\* price id is null) fails with the Validation error "plan required"; one
\* that names a plan_id the catalog does not hold fails with NotFound.  In
\* both cases no customer mapping was created, no operation of the
\* processor was called and no row changed.
C25_CreateNeedsPrice ==
  (last.op = "create" /\ last.allowed /\ ~last.slot) =>
    /\ (\/ /\ last.asked.plan_id = UNDEF
            /\ last.asked.stripe_price_id = UNDEF
         \/ \E p \in plans : /\ p.id = last.asked.plan_id
                              /\ p.stripe_price_id = NULL) =>
         /\ last.err = "plan_required"
         /\ ErrorKind(last.err) = "Validation"
         /\ last.calls = {} /\ ~last.changed /\ ~last.custsChanged
    /\ (/\ last.asked.plan_id # UNDEF
        /\ ~\E p \in plans : p.id = last.asked.plan_id) =>
         /\ last.err = "plan_not_found"
         /\ ErrorKind(last.err) = "NotFound"
         /\ last.calls = {} /\ ~last.changed /\ ~last.custsChanged

C25_Witness ==
  /\ last.op = "create" /\ last.allowed /\ ~last.slot
  /\ last.asked.plan_id = UNDEF /\ last.asked.stripe_price_id = UNDEF
  /\ last.err = "plan_required"
  /\ last.fault = "none"
  /\ ~\E m \in custs : m.user_id = last.target
  /\ gwCusts = 0

\* C26: whatever checkout sessions (ensureCustomer) and customer events
\* happened, no two customer mappings share a user_id or a
\* stripe_customer_id; and ensureCustomer for a user who has a mapping does
\* not call customers.create, keeps the mapping, and the session it is
\* called for is made for the mapping's stripe_customer_id.
C26_CustomerMappingsUnique ==
  /\ \A m1 \in custs, m2 \in custs :
       (m1.user_id = m2.user_id \/ m1.stripe_customer_id = m2.stripe_customer_id)
         => m1 = m2
  /\ last.op = "checkout" =>
       \A m \in last.pre :
         /\ "customers.create" \notin last.calls
         /\ \E n \in custs : /\ n.user_id = m.user_id
                              /\ n.stripe_customer_id = m.stripe_customer_id
         /\ \A d \in last.data : d.customer = m.stripe_customer_id

C26_Witness ==
  /\ last.op = "checkout" /\ last.err = "none"
  /\ \E m \in last.pre : m.user_id = "u2" /\ m.stripe_customer_id = 1
  /\ last.data = {[customer |-> 1, user_id |-> "u2"]}
  /\ "customers.update" \in last.calls
  /\ served = 2
  /\ Cardinality(custs) = 1

\* C27: of the create calls for one user that run at the same time, at most
\* one returns a subscription; the processor holds at most one subscription
\* made for that user and the user has at most one row in an active-like
\* or paused status.
C27_ConcurrentCreatesExclusive ==
  \A u \in Users :
    /\ Cardinality({p \in DOMAIN syncs :
                      /\ syncs[p].user = u /\ syncs[p].pc = "done"
                      /\ syncs[p].err = "none"}) <= 1
    /\ Cardinality({i \in DOMAIN gwSubs : gwSubs[i].metadata["user_id"] = u}) <= 1
    /\ Cardinality({r \in subs : /\ r.user_id = u
                                  /\ r.status \in ACTIVE_STATUSES \cup {"paused"}})
         <= 1

\* C28: a subscription webhook for an external subscription whose row remove
\* has deleted creates no row for it.  (Here a subscription of the processor
\* is canceled only by cancel or remove on its row, and the row goes only
\* by remove: a delivered snapshot that is canceled and has no row is one
\* of a removed subscription.)
C28_RemovedStaysRemoved ==
  [][(/\ last'.op = "webhook" /\ last'.allowed
      /\ last'.asked = "customer.subscription.updated"
      /\ last'.event.status = "canceled"
      /\ findByStripeSubscriptionId(subs, last'.event.id) = {}) =>
       findByStripeSubscriptionId(subs', last'.event.id) = {}]_vars

\* C29: when pause, resume and cancel calls on one local-only row have all
\* returned and a cancel among them succeeded, the row is canceled: it is
\* neither paused nor active, as after every sequential order of the calls.
C29_CancelSurvivesRace ==
  (\A p \in DOMAIN syncs : syncs[p].pc = "done") =>
    \A p \in DOMAIN syncs :
      (syncs[p].op = "cancel" /\ syncs[p].err = "none") =>
        \A r \in getById(subs, 1) : r.status = "canceled"

\* C30: a subscription webhook for an external subscription without a row
\* resolves the owner in this order.  A snapshot without a customer is
\* dropped, hint or not.  When a customer mapping exists for the
\* snapshot's customer, a row the webhook inserts has the mapping's user,
\* whatever the user_id of the metadata names, and it is inserted when the
\* plan label resolves.  Without a mapping, a row is inserted only for the
\* user the metadata names, and none when the metadata names no user.
C30_OwnerResolutionOrder ==
  [][(/\ last'.op = "webhook" /\ last'.allowed
      /\ last'.asked = "customer.subscription.updated"
      /\ findByStripeSubscriptionId(subs, last'.event.id) = {}) =>
       /\ last'.event.customer = NoCustomer =>
            subs' = subs /\ last'.err = "none"
       /\ \A m \in custs :
            m.stripe_customer_id = last'.event.customer =>
              /\ \A r \in subs' \ subs : r.user_id = m.user_id
              /\ (\E p \in plans : p.stripe_price_id = last'.event.price.id) =>
                   \E r \in subs' \ subs :
                     r.stripe_subscription_id = last'.event.id
       /\ (/\ last'.event.customer # NoCustomer
           /\ ~\E m \in custs : m.stripe_customer_id = last'.event.customer) =>
            IF "user_id" \in DOMAIN last'.event.metadata
            THEN \A r \in subs' \ subs :
                   r.user_id = last'.event.metadata["user_id"]
            ELSE subs' = subs /\ last'.err = "none"]_vars

C30_Witness ==
  /\ last.op = "webhook" /\ last.allowed /\ last.changed /\ served = 1
  /\ last.asked = "customer.subscription.updated"
  /\ last.event.customer = 1
  /\ last.event.metadata = [user_id |-> "u2"]
  /\ \E m \in custs : m.stripe_customer_id = 1 /\ m.user_id = "u1"
  /\ \E r \in subs : /\ r.stripe_subscription_id = last.event.id
                       /\ r.user_id = "u1"

\* C31: reconciliation leaves the reasons the user supplied alone: a
\* subscription webhook handled for a row that holds a pause_reason or a
\* cancel_reason leaves that reason as it was.
C31_SyncKeepsReasons ==
  [][(/\ last'.op = "webhook" /\ last'.allowed
      /\ last'.asked \in SubscriptionEvents) =>
       \A r \in subs, q \in subs' :
         q.id = r.id =>
           /\ r.pause_reason # NULL => q.pause_reason = r.pause_reason
           /\ r.cancel_reason # NULL => q.cancel_reason = r.cancel_reason]_vars

\* C32: after a cancel of an externally-backed row whose request carries no
\* invoice URL, the row's stripe_invoice_url is the URL reconciliation
\* derived from the latest invoice of the canceled subscription, or the
\* row's previous URL when the processor gave none.
C32_CancelKeepsDerivedInvoiceUrl ==
  [][(/\ last'.op = "cancel" /\ last'.err = "none"
      /\ last'.asked.stripe_invoice_url = UNDEF) =>
       \A r \in subs, q \in subs' :
         (q.id = r.id /\ r.id = last'.id /\ IsExternal(r)) =>
           q.stripe_invoice_url =
             The({IF url # NULL THEN url ELSE r.stripe_invoice_url :
                    url \in {extractInvoiceUrl(
                               GwSubscriptionsCancel(
                                 gwSubs[r.stripe_subscription_id]),
                               last'.asked.retrieveOk)}})]_vars

\* C33: an update of an externally-backed row retrieves the processor's
\* subscription and calls the processor's update exactly when the price the
\* patch resolves to differs from the price of the first item or the patch
\* carries non-empty metadata; without such a change the processor's
\* subscription stays as it is.  Pushed or not, a successful update leaves
\* the row reconciled with the processor's subscription as it is after the
\* call: the status is its canonical status, the period end is its period
\* end and the stripe sub-key of the metadata is its metadata.
C33_UpdatePushesOnlyChanges ==
  [][(/\ last'.op = "update" /\ last'.allowed
      /\ last'.fault # "subscriptions.retrieve") =>
       \A r \in subs :
         (r.id = last'.id /\ r.stripe_subscription_id # NoStripeId) =>
           \E pushed \in
                {\/ /\ last'.asked.metadata # {}
                    /\ DOMAIN The(last'.asked.metadata) # {}
                 \/ \E price \in
                        IF last'.asked.plan_id # UNDEF
                        THEN {pl.stripe_price_id :
                                pl \in {x \in plans : x.id = last'.asked.plan_id}}
                        ELSE {last'.asked.stripe_price_id} \ {UNDEF} :
                      /\ gwSubs[r.stripe_subscription_id].price.id # NULL
                      /\ price # gwSubs[r.stripe_subscription_id].price.id} :
             /\ "subscriptions.retrieve" \in last'.calls
             /\ ("subscriptions.update" \in last'.calls) = pushed
             /\ ~pushed => gwSubs' = gwSubs
             /\ last'.err = "none" =>
                  \E q \in subs' :
                    /\ q.id = r.id
                    /\ q.status = mapStripeStatus(gwSubs'[r.stripe_subscription_id])
                    /\ q.current_period_end =
                         convertTimestamp(
                           gwSubs'[r.stripe_subscription_id].current_period_end)
                    /\ q.metadata["stripe"] =
                         gwSubs'[r.stripe_subscription_id].metadata]_vars

\* C33 witness: an update naming the plan the subscription has already: no
\* change was pushed, and the paused row follows the processor's active
\* subscription.
C33_Witness ==
  /\ last.op = "update" /\ last.err = "none"
  /\ last.asked.plan_id = "plan_gold"
  /\ \E x \in last.pre : x.external /\ x.status = "paused"
  /\ last.calls = {"subscriptions.retrieve"}
  /\ \E r \in getById(subs, last.id) : r.status = "active"

\* C34: the metadata of a row reconciliation wrote.  Its stripe sub-key is
\* the metadata of the snapshot, whatever the sub-key held before.  When the
\* call carries extra metadata, its custom sub-key holds every key of the
\* previous custom sub-key that the extra metadata does not name, with its
\* previous value, and every key of the extra metadata with the new value
\* (a key given as undefined is absent from the stored object); without
\* extra metadata the custom sub-key is as it was.  Every other top-level
\* key is as it was, and there are no further keys.
C34_MergedMetadata ==
  \A r \in subs \ probe.start :
    r.stripe_subscription_id = probe.snap.id =>
      \E prev \in {IF \E q \in probe.start : q.id = r.id
                   THEN (CHOOSE q \in probe.start : q.id = r.id).metadata
                   ELSE EmptyMap} :
        \E before \in {IF "custom" \in DOMAIN prev THEN prev["custom"]
                       ELSE EmptyMap} :
          /\ r.metadata["stripe"] = probe.snap.metadata
          /\ \A k \in DOMAIN prev \ {"stripe", "custom"} :
               k \in DOMAIN r.metadata /\ r.metadata[k] = prev[k]
          /\ DOMAIN r.metadata =
               DOMAIN prev \cup {"stripe"}
               \cup (IF DOMAIN probe.custom # {} THEN {"custom"} ELSE {})
          /\ IF DOMAIN probe.custom = {}
             THEN "custom" \in DOMAIN prev => r.metadata["custom"] = before
             ELSE /\ \A k \in DOMAIN before \ DOMAIN probe.custom :
                       /\ k \in DOMAIN r.metadata["custom"]
                       /\ r.metadata["custom"][k] = before[k]
                  /\ \A k \in DOMAIN probe.custom :
                       IF probe.custom[k] = UNDEF
                       THEN k \notin DOMAIN r.metadata["custom"]
                       ELSE /\ k \in DOMAIN r.metadata["custom"]
                            /\ r.metadata["custom"][k] = probe.custom[k]
                  /\ DOMAIN r.metadata["custom"] \subseteq
                       DOMAIN before \cup DOMAIN probe.custom

\* C34 witness: a row with custom, stripe and legacy metadata reconciled
\* with extra metadata that renews one custom key: the renewed key has the
\* new value, the other custom keys are kept, the stripe sub-key lost its
\* old key and the legacy key is there.
C34_Witness ==
  /\ probe.phase = "1"
  /\ probe.custom = [k |-> "v1"]
  /\ probe.snap.metadata = [user_id |-> "u1", k |-> "s1"]
  /\ \E q \in probe.start, r \in subs \ probe.start :
       /\ q.id = r.id
       /\ q.metadata["stripe"] = [old |-> "x"]
       /\ r.metadata =
            [custom |-> [k |-> "v1", j |-> "w0", pause_reason |-> "r0"],
             stripe |-> [user_id |-> "u1", k |-> "s1"],
             legacy |-> [a |-> "b"]]

\* C35 as stated: on a row of an external subscription whose status at the
\* processor stays the same, a successful pause leaves the row paused, and
\* a successful resume after it leaves the row with the status it had
\* before the pause and no pause_reason.  (The rows here start in an
\* active-like status and only pause and resume act on them: a resume that
\* succeeded followed a pause that took effect.)
C35_PauseResumeRoundTrip ==
  /\ (last.op = "pause" /\ last.err = "none") =>
       \A r \in getById(subs, last.id) : r.status = "paused"
  /\ (last.op = "resume" /\ last.err = "none") =>
       \A r \in getById(subs, last.id), q \in probe.start :
         q.id = r.id => r.status = q.status /\ r.pause_reason = NULL

\* C35: the same, for a row that was level with the processor before the
\* pause: its status was the canonical status of the processor's
\* subscription.
C35_PauseResumeRoundTripWhenLevel ==
  /\ (last.op = "pause" /\ last.err = "none") =>
       \A r \in getById(subs, last.id) : r.status = "paused"
  /\ (last.op = "resume" /\ last.err = "none") =>
       \A r \in getById(subs, last.id), q \in probe.start :
         (/\ q.id = r.id
          /\ q.status = gwSubs[q.stripe_subscription_id].status) =>
           r.status = q.status /\ r.pause_reason = NULL

\* C35 witness: a past_due row, paused with a reason and then resumed, is
\* past_due again.
C35_Witness ==
  /\ last.op = "resume" /\ last.err = "none" /\ served = 2
  /\ \E x \in last.pre : x.external /\ x.status = "paused"
  /\ gwSubs[1].status = "past_due" /\ gwSubs[1].pause_collection = NULL
  /\ gwSubs[1].metadata = [pause_reason |-> "r1"]
  /\ \E r \in getById(subs, last.id), q \in probe.start :
       /\ q.id = r.id /\ q.status = "past_due"
       /\ r.status = "past_due" /\ r.pause_reason = NULL

\* C36: when two ensureCustomer calls for one user have both returned, at
\* most one of them created a customer at the processor, neither failed,
\* and both returned the same customer.
C36_ConcurrentEnsureCustomer ==
  \A p, q \in DOMAIN syncs :
    (/\ p # q /\ syncs[p].user = syncs[q].user
     /\ syncs[p].pc = "done" /\ syncs[q].pc = "done") =>
      /\ syncs[p].made = NoCustomer \/ syncs[q].made = NoCustomer
      /\ syncs[p].err = "none" /\ syncs[q].err = "none"
      /\ syncs[p].customer = syncs[q].customer

\* C37: no step changes the stripe_subscription_id of a row that exists:
\* update, pause, resume and cancel do not write it, and reconciliation
\* writes the id it found the row by.  A row without one stays without one
\* and a row with one keeps it.
C37_StripeIdNeverChanges ==
  [][\A r \in subs, q \in subs' :
       q.id = r.id => q.stripe_subscription_id = r.stripe_subscription_id]_vars

\* C37 witness: a webhook reconciled the row of external subscription 1,
\* and before it a patch was written on that row.
C37_Witness ==
  /\ last.op = "webhook" /\ last.changed /\ served = 2
  /\ last.asked = "customer.subscription.updated"
  /\ \E r \in subs :
       /\ r.id = 1 /\ r.stripe_subscription_id = 1
       /\ r.status = "past_due"
       /\ r.cancel_reason = "r2"

\* C38: a row reconciliation wrote from a snapshot whose status is canceled
\* and which has a canceled_at or an ended_at has a canceled_at: the
\* instant of the snapshot's canceled_at when the snapshot has one, else
\* the instant of its ended_at.
C38_CanceledAtSet ==
  \A r \in subs \ probe.start :
    (/\ r.stripe_subscription_id = probe.snap.id
     /\ probe.snap.status = "canceled"
     /\ probe.snap.canceled_at # 0 \/ probe.snap.ended_at # 0) =>
      /\ r.canceled_at # NoTime
      /\ r.canceled_at = IF probe.snap.canceled_at # 0
                         THEN probe.snap.canceled_at * 1000
                         ELSE probe.snap.ended_at * 1000

\* C38 witness: a canceled snapshot with an ended_at and no canceled_at was
\* written on the row of the subscription.
C38_Witness ==
  /\ probe.phase = "1"
  /\ probe.snap.status = "canceled"
  /\ probe.snap.canceled_at = 0 /\ probe.snap.ended_at = 3
  /\ \E q \in probe.start, r \in subs \ probe.start :
       /\ q.id = r.id
       /\ r.stripe_subscription_id = probe.snap.id
       /\ r.canceled_at = 3000

\* C39: a checkout session event whose session is not in subscription mode
\* or names no subscription calls no operation of the processor and
\* changes no table.  Otherwise the handler retrieves the subscription
\* and, when it succeeds, the store holds exactly one row for it, with the
\* canonical status and the customer of the processor's subscription, the
\* processor's metadata under the stripe sub-key and the session's metadata
\* under the custom sub-key.  Handled again for a row that holds these
\* values, the invoice URL and the plan of the subscription's price, as an
\* earlier delivery of the session left it, it leaves every row as it
\* was, the time of the last event apart.
C39_CheckoutCompletion ==
  [][(/\ last'.op = "webhook" /\ last'.allowed
      /\ last'.asked \in CheckoutEvents) =>
       IF \/ last'.event.mode # "subscription"
          \/ last'.event.subscription = NoStripeId
       THEN /\ last'.calls = {} /\ last'.err = "none"
            /\ subs' = subs /\ custs' = custs /\ plans' = plans
       ELSE /\ "subscriptions.retrieve" \in last'.calls
            /\ last'.fault = "none" =>
                 \A r \in subs' \ subs : 
                   r.stripe_subscription_id = last'.event.subscription
            /\ last'.err = "none" =>
                 /\ Cardinality({r \in subs' : r.stripe_subscription_id =
                                                 last'.event.subscription}) = 1
                 /\ \A r \in subs' :
                      r.stripe_subscription_id = last'.event.subscription =>
                        /\ r.status =
                             mapStripeStatus(gwSubs[last'.event.subscription])
                        /\ r.stripe_customer_id =
                             gwSubs[last'.event.subscription].customer
                        /\ r.metadata["stripe"] =
                             gwSubs[last'.event.subscription].metadata
                        /\ r.metadata["custom"] = last'.event.metadata
            /\ (/\ last'.err = "none"
                /\ \E r \in subs :
                     /\ r.stripe_subscription_id = last'.event.subscription
                     /\ r.status =
                          mapStripeStatus(gwSubs[last'.event.subscription])
                     /\ r.stripe_customer_id =
                          gwSubs[last'.event.subscription].customer
                     /\ r.stripe_invoice_url =
                          gwSubs[last'.event.subscription].latest_invoice.hosted
                     /\ "custom" \in DOMAIN r.metadata
                     /\ r.metadata["custom"] = last'.event.metadata
                     /\ r.metadata["stripe"] =
                          gwSubs[last'.event.subscription].metadata
                     /\ \A pl \in plans :
                          pl.stripe_price_id =
                            gwSubs[last'.event.subscription].price.id =>
                            r.plan = pl.name /\ r.plan_id = pl.id) =>
                 WithoutLastEvent(subs') = WithoutLastEvent(subs)]_vars

\* C39 witness: the session event of subscription 1 handled a second time:
\* the row the first delivery inserted is there, alone and unchanged.
C39_Witness ==
  /\ last.op = "webhook" /\ last.allowed /\ last.err = "none" /\ served = 2
  /\ last.asked = "checkout.session.completed"
  /\ last.event.mode = "subscription" /\ last.event.subscription = 1
  /\ ~last.changed
  /\ Cardinality(subs) = 1
  /\ \E r \in subs :
       /\ r.stripe_subscription_id = 1 /\ r.user_id = "u2"
       /\ r.status = "active"
       /\ r.metadata["custom"] = [user_id |-> "u2"]

====
